---- MODULE Spec2Model ----
(***************************************************************************)
(* GRID_POWER_STREAM: the Gold star schema (dim_loader.py, fact_loader.py),*)
(* the region registry (asset_discovery.py, asset_lifecycle.py) and the    *)
(* Silver transformers (transformations/*.py), as state machines.          *)
(*                                                                         *)
(* A nullable value is a sequence of length at most one: Null is <<>>,     *)
(* Some(v) is <<v>>.  A table is a set of rows (records); a surrogate id   *)
(* comes from the table's AUTOINCREMENT counter.                           *)
(***************************************************************************)
EXTENDS Integers, Sequences, FiniteSets, TLC

VARIABLES DIM_REGION, DIM_TIME, DIM_SOURCE, FACT_ENERGY_FLOW,
          seqRegion, seqTime, seqSource, seqFact,
          capacity_data, lastCall, lastResult, replayed, budget

goldVars == <<DIM_REGION, DIM_TIME, DIM_SOURCE, FACT_ENERGY_FLOW,
              seqRegion, seqTime, seqSource, seqFact,
              capacity_data, lastCall, lastResult, replayed, budget>>

\* the region registry of asset_discovery.py / asset_lifecycle.py: its own
\* DIM_REGION table (AssetRegions), the clock in hours, the two thresholds
\* of the AssetLifecycle instance and the summaries of the last calls
VARIABLES AssetRegions, seqAsset, clock, staleness_hours, inactive_hours,
          lcCall, discovery, lifecycle, lcBudget

lifecycleVars == <<AssetRegions, seqAsset, clock, staleness_hours, inactive_hours,
                   lcCall, discovery, lifecycle, lcBudget>>

\* one run of a Silver transformer: the dataset, the Bronze records read,
\* the frame written (silverRows), the Parquet files it is written to, and
\* the summary returned
VARIABLES silverSource, bronzeInput, silverDone, silverRows, silverFiles,
          silverSummary

silverVars == <<silverSource, bronzeInput, silverDone, silverRows, silverFiles,
                silverSummary>>

\* one call of apply_quality_rules: the frame and the rule table given, the
\* frame and the metrics returned
VARIABLES qualityInput, qualityRules, qualityDone, qualityOutput, qualityMetrics

qualityVars == <<qualityInput, qualityRules, qualityDone, qualityOutput,
                 qualityMetrics>>

\* one call of a Silver transformer or of FactLoader.load_from_silver on a
\* path: the operation, what the path is (missing, a file, a directory) and
\* the files read there, each a list of records; how the call ended and the
\* Silver files it wrote
VARIABLES pathOp, pathKind, pathFiles, pathDone, pathOutcome, pathWritten

pathVars == <<pathOp, pathKind, pathFiles, pathDone, pathOutcome, pathWritten>>

\* run_full_pipeline: the mode, the place in the function, the results dict,
\* the stages entered by the current run, the runs started, and what the
\* Bronze, Silver and Gold stores hold (artefacts written so far)
VARIABLES local_mode, pipePc, results, stagesRun, pipeRuns,
          bronzeStore, silverStore, goldStore

pipelineVars == <<local_mode, pipePc, results, stagesRun, pipeRuns,
                  bronzeStore, silverStore, goldStore>>

\* a client of query_production paging through one result: whether the
\* Gold load has been done, the filters and the limit of the calls, and the
\* responses received so far for the offsets 0, limit, 2*limit, ...
VARIABLES queryLoaded, queryCall, pages

queryVars == <<queryLoaded, queryCall, pages>>

\* CSVIngestion: whether it has an audit logger, the last call and the
\* results it returned, the writes made so far to the Bronze capacity area
\* and to the errors area, and the files the run may still submit
VARIABLES csvAudit, csvCall, csvResults, capacityArea, errorsArea, csvBudget

csvVars == <<csvAudit, csvCall, csvResults, capacityArea, errorsArea, csvBudget>>

\* one call of RTEClient._request_with_retry: the loop variable attempt, the
\* place in the loop, last_error, the responses received and the delays
\* slept so far, and how the call ended
VARIABLES attempt, retryPc, last_error, responses, slept, retryOutcome

retryVars == <<attempt, retryPc, last_error, responses, slept, retryOutcome>>

\* one FactLoader.load_from_silver call statement by statement: the place in
\* the call, its batch, the connection's view of the database (the tables
\* above are what is committed), and the database at the start of the call
VARIABLES loadPc, loadBatch, loadRegions, loadTimestamps, loadRow, conn,
          rows_loaded, loadStart, loadFailedAt, loadCalls

commitVars == <<loadPc, loadBatch, loadRegions, loadTimestamps, loadRow, conn,
                rows_loaded, loadStart, loadFailedAt, loadCalls>>

\* one grid point through ERA5Ingestion._map_to_regions: the point and the
\* region_code it gets
VARIABLES gridPoint, pointRegion

mapVars == <<gridPoint, pointRegion>>

\* ERA5Ingestion on one source file: the rows of the file, the result of
\* ingest_parquet on it, and one ingest_chunked call: the place in the call,
\* its locals, the windows gone through with the rows each one held, and
\* its result
VARIABLES era5Input, wholeResult, chunkPc, current, max_time, total_rows,
          total_files, all_regions, chunks, chunkedResult

chunkVars == <<era5Input, wholeResult, chunkPc, current, max_time, total_rows,
               total_files, all_regions, chunks, chunkedResult>>

\* the Silver output directory of the telemetry transformer across two
\* calls: its partition files, the place in the sequence of calls, the
\* Bronze records and cleaned batch of the latest call, and the files the
\* directory held before it
VARIABLES silverDir, dirPc, dirInput, dirRows, dirBefore

dirVars == <<silverDir, dirPc, dirInput, dirRows, dirBefore>>

laterVars == <<commitVars, mapVars, chunkVars, dirVars>>

otherVars == <<qualityVars, pathVars, pipelineVars, queryVars, csvVars, retryVars, laterVars>>

vars == <<goldVars, lifecycleVars, silverVars, otherVars>>

(***************************************************************************)
(* Bounds and input domains                                                *)
(***************************************************************************)
\* items (Silver rows, dimension entries) one Gold run may submit in total
MaxItems == 2
\* items one dimension-only run may submit in total
MaxDimItems == 3
\* steps (Bronze records, checks, clock advances) one registry run may take
MaxRegistryItems == 4
\* Bronze records one Silver run reads
MaxRecs == 3
\* rows of the frame one apply_quality_rules call is given
MaxQualityRows == 2
\* files under the directory a path-taking call is given
MaxPathFiles == 2
\* records one such file holds
MaxFileRecs == 1
\* pipeline runs, one after the other
MaxPipelineRuns == 2
\* Silver rows of the load that fills the Gold tables queried
MaxQueryRows == 3
\* CSV files one ingestion run submits in total
MaxCsvFiles == 3

\* production_service.py: the limit when the caller gives none
DEFAULT_LIMIT == 100

\* rte_client.py: retry configuration
MAX_RETRIES == 3
BASE_DELAY == 2

\* asset_lifecycle.py: the thresholds when the environment sets none
DEFAULT_STALENESS_HOURS == 24
DEFAULT_INACTIVE_HOURS == 168

Null == <<>>
Some(v) == <<v>>

Range(s) == {s[i] : i \in DOMAIN s}

\* all sequences without repetition that enumerate the set S
Perms(S) == {s \in [1..Cardinality(S) -> S] : Range(s) = S}

\* sequences over S of length 0..n
SeqUpTo(S, n) == UNION {[1..k -> S] : k \in 0..n}

Codes == {"11", "84"}
\* two ISO-8601 timestamps and one string datetime.fromisoformat rejects
GoodTimestamps == {"2025-06-13T10:00:00+00:00", "2025-06-15T10:00:00+00:00"}
BadTimestamp == "not-a-date"
Timestamps == GoodTimestamps \cup {BadTimestamp}
\* the date_heure values of the modelled Silver rows
RowTimestamps == {"2025-06-15T10:00:00+00:00", BadTimestamp}

(***************************************************************************)
(* The Gold database: four tables and their AUTOINCREMENT counters.        *)
(* SQLite advances a table's counter on every INSERT attempt, also when    *)
(* the attempt ends in ON CONFLICT DO UPDATE / DO NOTHING.                 *)
(***************************************************************************)
GoldDb == [region |-> DIM_REGION, time |-> DIM_TIME, source |-> DIM_SOURCE,
           fact |-> FACT_ENERGY_FLOW, seqRegion |-> seqRegion,
           seqTime |-> seqTime, seqSource |-> seqSource, seqFact |-> seqFact]

\* DimLoader.ensure_schema on a new database: empty tables
EmptyDb == [region |-> {}, time |-> {}, source |-> {}, fact |-> {},
            seqRegion |-> 0, seqTime |-> 0, seqSource |-> 0, seqFact |-> 0]

\* DimLoader.get_region_id: SELECT id_region ... WHERE code_insee = ?
get_region_id(db, code_insee) ==
    IF \E r \in db.region : r.code_insee = code_insee
    THEN Some((CHOOSE r \in db.region : r.code_insee = code_insee).id_region)
    ELSE Null

\* DimLoader.get_time_id: SELECT id_date ... WHERE horodatage = ?
get_time_id(db, horodatage) ==
    IF \E t \in db.time : t.horodatage = horodatage
    THEN Some((CHOOSE t \in db.time : t.horodatage = horodatage).id_date)
    ELSE Null

\* DimLoader.get_source_id: SELECT id_source ... WHERE source_name = ?
get_source_id(db, source_name) ==
    IF \E s \in db.source : s.source_name = source_name
    THEN Some((CHOOSE s \in db.source : s.source_name = source_name).id_source)
    ELSE Null

\* INSERT OR REPLACE INTO DIM_REGION: a conflicting row is deleted and the
\* new one takes the next id
ReplaceRegionRow(db, r) ==
    [db EXCEPT !.seqRegion = @ + 1,
               !.region = {x \in @ : x.code_insee # r.code_insee}
                          \cup {[id_region |-> db.seqRegion + 1,
                                 code_insee |-> r.code_insee,
                                 nom_region |-> r.nom_region,
                                 population |-> r.population,
                                 superficie_km2 |-> r.superficie_km2]}]

\* a plain INSERT INTO DIM_REGION: the ON CONFLICT clause forgotten
InsertRegionRowAlways(db, r) ==
    [db EXCEPT !.seqRegion = @ + 1,
               !.region = @ \cup {[id_region |-> db.seqRegion + 1,
                                   code_insee |-> r.code_insee,
                                   nom_region |-> r.nom_region,
                                   population |-> r.population,
                                   superficie_km2 |-> r.superficie_km2]}]

\* ON CONFLICT DO UPDATE SET population = COALESCE(excluded.population,
\* population), and so for superficie_km2: a null does not overwrite
UpsertRegionRowKeepFilled(db, r) ==
    LET hit == {x \in db.region : x.code_insee = r.code_insee}
        upd(x) == [x EXCEPT !.nom_region = r.nom_region,
                            !.population = IF r.population = Null THEN @
                                           ELSE r.population,
                            !.superficie_km2 = IF r.superficie_km2 = Null THEN @
                                               ELSE r.superficie_km2]
        new == [id_region |-> db.seqRegion + 1, code_insee |-> r.code_insee,
                nom_region |-> r.nom_region, population |-> r.population,
                superficie_km2 |-> r.superficie_km2]
    IN  [db EXCEPT !.seqRegion = @ + 1,
                   !.region = IF hit = {} THEN @ \cup {new}
                              ELSE (@ \ hit) \cup {upd(x) : x \in hit}]

\* one INSERT INTO DIM_REGION ... ON CONFLICT(code_insee) DO UPDATE SET
\* nom_region, population, superficie_km2 = excluded.*
UpsertRegionRow(db, r) ==
    LET hit == {x \in db.region : x.code_insee = r.code_insee}
        upd(x) == [x EXCEPT !.nom_region = r.nom_region,
                            !.population = r.population,
                            !.superficie_km2 = r.superficie_km2]
        new == [id_region |-> db.seqRegion + 1, code_insee |-> r.code_insee,
                nom_region |-> r.nom_region, population |-> r.population,
                superficie_km2 |-> r.superficie_km2]
    IN  [db EXCEPT !.seqRegion = @ + 1,
                   !.region = IF hit = {} THEN @ \cup {new}
                              ELSE (@ \ hit) \cup {upd(x) : x \in hit}]

RECURSIVE upsert_regions(_, _)
\* DimLoader.upsert_regions: the rows of the list in order, then commit
upsert_regions(db, regions) ==
    IF regions = <<>> THEN db
    ELSE upsert_regions(UpsertRegionRow(db, Head(regions)), Tail(regions))

\* datetime.fromisoformat on the model's timestamps: the calendar fields of
\* a well-formed string, Null where Python raises ValueError
fromisoformat(ts_str) ==
    IF ts_str = "2025-06-13T10:00:00+00:00"
    THEN Some([day |-> 13, month |-> 6, year |-> 2025, hour |-> 10, isoweekday |-> 5])
    ELSE IF ts_str = "2025-06-15T10:00:00+00:00"
    THEN Some([day |-> 15, month |-> 6, year |-> 2025, hour |-> 10, isoweekday |-> 7])
    ELSE Null

\* one INSERT INTO DIM_TIME ... ON CONFLICT(horodatage) DO NOTHING
InsertTimeRow(db, ts_str, ts) ==
    LET hit == {x \in db.time : x.horodatage = ts_str}
        new == [id_date |-> db.seqTime + 1, horodatage |-> ts_str,
                jour |-> ts.day, mois |-> ts.month, annee |-> ts.year,
                heure |-> ts.hour, jour_semaine |-> ts.isoweekday,
                est_weekend |-> IF ts.isoweekday >= 6 THEN 1 ELSE 0]
    IN  [db EXCEPT !.seqTime = @ + 1,
                   !.time = IF hit = {} THEN @ \cup {new} ELSE @]

RECURSIVE upsert_time(_, _)
\* DimLoader.upsert_time: a string fromisoformat rejects is passed over
upsert_time(db, timestamps) ==
    IF timestamps = <<>> THEN db
    ELSE LET ts == fromisoformat(Head(timestamps))
         IN  IF ts = Null THEN upsert_time(db, Tail(timestamps))
             ELSE upsert_time(InsertTimeRow(db, Head(timestamps), ts[1]),
                              Tail(timestamps))

RECURSIVE CountParsed(_)
\* the count upsert_time returns: the entries it did not pass over
CountParsed(timestamps) ==
    IF timestamps = <<>> THEN 0
    ELSE (IF fromisoformat(Head(timestamps)) = Null THEN 0 ELSE 1)
         + CountParsed(Tail(timestamps))

\* the default French source list of upsert_sources, in its order
DefaultSources ==
    << [source_name |-> "nucleaire", is_green |-> 0],
       [source_name |-> "eolien", is_green |-> 1],
       [source_name |-> "solaire", is_green |-> 1],
       [source_name |-> "hydraulique", is_green |-> 1],
       [source_name |-> "gaz", is_green |-> 0],
       [source_name |-> "charbon", is_green |-> 0],
       [source_name |-> "fioul", is_green |-> 0],
       [source_name |-> "bioenergies", is_green |-> 1] >>

\* INSERT OR REPLACE INTO DIM_SOURCE: a conflicting row is deleted and the
\* new one takes the next id
ReplaceSourceRow(db, s) ==
    [db EXCEPT !.seqSource = @ + 1,
               !.source = {x \in @ : x.source_name # s.source_name}
                          \cup {[id_source |-> db.seqSource + 1,
                                 source_name |-> s.source_name,
                                 is_green |-> s.is_green]}]

\* one INSERT INTO DIM_SOURCE ... ON CONFLICT(source_name) DO UPDATE SET is_green
UpsertSourceRow(db, s) ==
    LET hit == {x \in db.source : x.source_name = s.source_name}
        new == [id_source |-> db.seqSource + 1, source_name |-> s.source_name,
                is_green |-> s.is_green]
    IN  [db EXCEPT !.seqSource = @ + 1,
                   !.source = IF hit = {} THEN @ \cup {new}
                              ELSE (@ \ hit) \cup {[x EXCEPT !.is_green = s.is_green] : x \in hit}]

RECURSIVE UpsertSourceRows(_, _)
UpsertSourceRows(db, sources) ==
    IF sources = <<>> THEN db
    ELSE UpsertSourceRows(UpsertSourceRow(db, Head(sources)), Tail(sources))

\* DimLoader.upsert_sources: Null stands for sources=None (the default list)
upsert_sources(db, sources) ==
    UpsertSourceRows(db, IF sources = Null THEN DefaultSources ELSE sources[1])


(***************************************************************************)
(* FactLoader.load_from_silver                                             *)
(*                                                                         *)
(* A Silver row is [code_insee_region, libelle_region, date_heure, cols],  *)
(* cols mapping each measure or temperature column the batch carries to a  *)
(* nullable number.  MW values are whole numbers; a load factor is kept in *)
(* units of 0.0001 (its 4 decimal places).                                 *)
(***************************************************************************)
\* SOURCE_COLUMN_MAP in its iteration order
SOURCE_COLUMN_MAP ==
    << [col |-> "nucleaire_mw", source_name |-> "nucleaire"],
       [col |-> "eolien_mw", source_name |-> "eolien"],
       [col |-> "solaire_mw", source_name |-> "solaire"],
       [col |-> "hydraulique_mw", source_name |-> "hydraulique"],
       [col |-> "gaz_mw", source_name |-> "gaz"],
       [col |-> "charbon_mw", source_name |-> "charbon"],
       [col |-> "fioul_mw", source_name |-> "fioul"],
       [col |-> "bioenergies_mw", source_name |-> "bioenergies"] >>

\* row.get(col): None when the row has no such column
RowGet(row, col) == IF col \in DOMAIN row.cols THEN row.cols[col] ELSE Null

\* Python's `a or b` on nullable numbers: None and 0.0 are falsy
PyOr(a, b) == IF a = Null \/ a = Some(0) THEN b ELSE a

\* temp = row.get("temperature_c") or row.get("temperature_moyenne")
RowTemperature(row) ==
    PyOr(RowGet(row, "temperature_c"), RowGet(row, "temperature_moyenne"))

\* round(valeur_mw / installed, 4), in units of 0.0001
RoundedRatio(valeur_mw, installed) ==
    (2 * 10000 * valeur_mw + installed) \div (2 * installed)

\* a load factor of zero in the place of None
FacteurChargeOrZero(capacity, source_name, valeur_mw) ==
    IF source_name \in DOMAIN capacity /\ capacity[source_name] > 0
    THEN Some(RoundedRatio(valeur_mw, capacity[source_name]))
    ELSE Some(0)

\* facteur_charge: None unless self.capacity knows the source with a value > 0
FacteurCharge(capacity, source_name, valeur_mw) ==
    IF source_name \in DOMAIN capacity /\ capacity[source_name] > 0
    THEN Some(RoundedRatio(valeur_mw, capacity[source_name]))
    ELSE Null

\* a plain INSERT: the ON CONFLICT clause forgotten
InsertFactRowAlways(db, p) ==
    [db EXCEPT !.seqFact = @ + 1,
               !.fact = @ \cup {[id_fact |-> db.seqFact + 1, id_date |-> p.id_date,
                                 id_region |-> p.id_region, id_source |-> p.id_source,
                                 valeur_mw |-> p.valeur_mw,
                                 facteur_charge |-> p.facteur_charge,
                                 temperature_moyenne |-> p.temperature_moyenne]}]

\* ON CONFLICT ... DO NOTHING instead of DO UPDATE: the first value is kept
InsertFactRowKeepFirst(db, p) ==
    IF \E f \in db.fact : /\ f.id_date = p.id_date /\ f.id_region = p.id_region
                          /\ f.id_source = p.id_source
    THEN [db EXCEPT !.seqFact = @ + 1]
    ELSE InsertFactRowAlways(db, p)

\* INSERT INTO FACT_ENERGY_FLOW ... ON CONFLICT(id_date, id_region, id_source)
\* DO UPDATE SET valeur_mw, facteur_charge, temperature_moyenne = excluded.*
UpsertFactRow(db, p) ==
    LET hit == {f \in db.fact : /\ f.id_date = p.id_date
                                /\ f.id_region = p.id_region
                                /\ f.id_source = p.id_source}
        upd(f) == [f EXCEPT !.valeur_mw = p.valeur_mw,
                            !.facteur_charge = p.facteur_charge,
                            !.temperature_moyenne = p.temperature_moyenne]
        new == [id_fact |-> db.seqFact + 1, id_date |-> p.id_date,
                id_region |-> p.id_region, id_source |-> p.id_source,
                valeur_mw |-> p.valeur_mw, facteur_charge |-> p.facteur_charge,
                temperature_moyenne |-> p.temperature_moyenne]
    IN  [db EXCEPT !.seqFact = @ + 1,
                   !.fact = IF hit = {} THEN @ \cup {new}
                            ELSE (@ \ hit) \cup {upd(f) : f \in hit}]

\* the body of `for col, source_name in SOURCE_COLUMN_MAP.items()` for one
\* entry: st is [db, rows_loaded]
LoadSourceColumn(st, row, capacity, id_region, id_date, entry) ==
    IF RowGet(row, entry.col) = Null THEN st
    ELSE LET valeur_mw == RowGet(row, entry.col)[1]
             id_source == get_source_id(st.db, entry.source_name)
         IN  IF id_source = Null THEN st
             ELSE [db |-> UpsertFactRow(st.db,
                       [id_date |-> id_date, id_region |-> id_region,
                        id_source |-> id_source[1], valeur_mw |-> valeur_mw,
                        facteur_charge |-> FacteurCharge(capacity, entry.source_name, valeur_mw),
                        temperature_moyenne |-> RowTemperature(row)]),
                   rows_loaded |-> st.rows_loaded + 1]

RECURSIVE LoadSourceColumns(_, _, _, _, _, _)
LoadSourceColumns(st, row, capacity, id_region, id_date, entries) ==
    IF entries = <<>> THEN st
    ELSE LoadSourceColumns(
             LoadSourceColumn(st, row, capacity, id_region, id_date, Head(entries)),
             row, capacity, id_region, id_date, Tail(entries))

\* the loop body without `if not id_region or not id_date: continue`
LoadRowNoSkip(st, row, capacity) ==
    LET id_region == get_region_id(st.db, row.code_insee_region)
        id_date == get_time_id(st.db, row.date_heure)
    IN  LoadSourceColumns(st, row, capacity,
                          IF id_region = Null THEN 0 ELSE id_region[1],
                          IF id_date = Null THEN 0 ELSE id_date[1],
                          SOURCE_COLUMN_MAP)

\* the body of `for row in df.iter_rows(named=True)`: a row whose region or
\* timestamp has no dimension row is passed over
LoadRow(st, row, capacity) ==
    LET id_region == get_region_id(st.db, row.code_insee_region)
        id_date == get_time_id(st.db, row.date_heure)
    IN  IF id_region = Null \/ id_date = Null THEN st
        ELSE LoadSourceColumns(st, row, capacity, id_region[1], id_date[1],
                               SOURCE_COLUMN_MAP)

RECURSIVE LoadRows(_, _, _)
LoadRows(st, rows, capacity) ==
    IF rows = <<>> THEN st
    ELSE LoadRows(LoadRow(st, Head(rows), capacity), Tail(rows), capacity)

\* the distinct (code, label) pairs and the distinct timestamps of a batch
BatchRegions(batch) ==
    {[code_insee |-> r.code_insee_region, nom_region |-> r.libelle_region,
      population |-> Null, superficie_km2 |-> Null] : r \in Range(batch.rows)}

BatchTimestamps(batch) == {r.date_heure : r \in Range(batch.rows)}

\* load_from_silver on a batch read from silver_path.  regions and timestamps
\* are the batch's distinct pairs and timestamps in the order unique()
\* happened to return them.  The result is [db, status, rows_loaded].
load_from_silver(db, batch, capacity, regions, timestamps) ==
    IF batch.rows = <<>>
    THEN [db |-> db, status |-> "empty", rows_loaded |-> 0]
    ELSE LET db1 == upsert_sources(db, Null)
             db2 == IF batch.hasLabel THEN upsert_regions(db1, regions) ELSE db1
             db3 == upsert_time(db2, timestamps)
             st == LoadRows([db |-> db3, rows_loaded |-> 0], batch.rows, capacity)
         IN  [db |-> st.db, status |-> "success", rows_loaded |-> st.rows_loaded]


(***************************************************************************)
(* Inputs of the Gold operations                                           *)
(***************************************************************************)
LabelOf(code) == IF code = "11" THEN "Ile-de-France" ELSE "Auvergne-Rhone-Alpes"

MeasureCols(nucleaire, eolien, temperature) ==
    [c \in {"nucleaire_mw", "eolien_mw", "temperature_c"} |->
        IF c = "nucleaire_mw" THEN nucleaire
        ELSE IF c = "eolien_mw" THEN eolien ELSE temperature]

\* the measure and temperature values a modelled Silver row may carry
MeasureProfiles ==
    { MeasureCols(Null, Some(1), Null),
      MeasureCols(Some(4), Some(2), Some(5)),
      MeasureCols(Some(4), Null, Some(0)) }

\* telemetry rows as the Silver layer hands them over: region code and
\* label are not null; date_heure is a string, possibly not ISO-8601
SilverRows ==
    {[code_insee_region |-> c, libelle_region |-> LabelOf(c),
      date_heure |-> t, cols |-> m] :
        c \in Codes, t \in RowTimestamps, m \in MeasureProfiles}

\* hasLabel: whether the batch has a libelle_region column
SilverBatches(n) ==
    {[rows |-> rs, hasLabel |-> h] : rs \in SeqUpTo(SilverRows, n), h \in BOOLEAN}

\* capacity_data the run's FactLoader may be constructed with
Capacities == { [s \in {} |-> 0], [s \in {"eolien"} |-> 3] }

RegionEntries ==
    {[code_insee |-> c, nom_region |-> a.nom_region,
      population |-> a.population, superficie_km2 |-> a.superficie_km2] :
        c \in Codes,
        a \in { [nom_region |-> "Region A", population |-> Some(7), superficie_km2 |-> Some(12)],
                [nom_region |-> "Region B", population |-> Null, superficie_km2 |-> Null] }}

SourceEntries ==
    { [source_name |-> "eolien", is_green |-> 0],
      [source_name |-> "biogaz", is_green |-> 1] }

\* what a call takes from the run's budget
Cost(n) == IF n = 0 THEN 1 ELSE n

\* the previous call again, with the same arguments: allowed once, and free
ReplayOf(op) == IF lastCall.op = op /\ ~replayed THEN {lastCall.arg} ELSE {}

\* bookkeeping common to the Gold actions: a call that repeats the previous
\* one is a replay, any other call pays for its n items
Account(op, arg, n) ==
    /\ IF lastCall.op = op /\ lastCall.arg = arg
       THEN ~replayed /\ replayed' = TRUE /\ budget' = budget
       ELSE Cost(n) <= budget /\ replayed' = FALSE /\ budget' = budget - Cost(n)
    /\ lastCall' = [op |-> op, arg |-> arg]
    /\ UNCHANGED <<capacity_data, lifecycleVars, silverVars, otherVars>>

SetDb(db) ==
    /\ DIM_REGION' = db.region
    /\ DIM_TIME' = db.time
    /\ DIM_SOURCE' = db.source
    /\ FACT_ENERGY_FLOW' = db.fact
    /\ seqRegion' = db.seqRegion
    /\ seqTime' = db.seqTime
    /\ seqSource' = db.seqSource
    /\ seqFact' = db.seqFact

(***************************************************************************)
(* Gold actions                                                            *)
(***************************************************************************)
LoadFromSilver ==
    \E batch \in SilverBatches(budget) \cup ReplayOf("load_from_silver") :
      \E regions \in Perms(BatchRegions(batch)),
         timestamps \in Perms(BatchTimestamps(batch)) :
      \E r \in {load_from_silver(GoldDb, batch, capacity_data, regions, timestamps)} :
        /\ Account("load_from_silver", batch, Len(batch.rows))
        /\ SetDb(r.db)
        /\ lastResult' = [status |-> r.status, count |-> r.rows_loaded]

UpsertRegions ==
    \E regions \in SeqUpTo(RegionEntries, budget) \cup ReplayOf("upsert_regions") :
      \E db \in {upsert_regions(GoldDb, regions)} :
        /\ Account("upsert_regions", regions, Len(regions))
        /\ SetDb(db)
        /\ lastResult' = [status |-> "ok", count |-> Len(regions)]

UpsertTime ==
    \E timestamps \in SeqUpTo(Timestamps, budget) \cup ReplayOf("upsert_time") :
      \E db \in {upsert_time(GoldDb, timestamps)} :
        /\ Account("upsert_time", timestamps, Len(timestamps))
        /\ SetDb(db)
        /\ lastResult' = [status |-> "ok", count |-> CountParsed(timestamps)]

UpsertSources ==
    \E sources \in {Null} \cup {Some(l) : l \in SeqUpTo(SourceEntries, budget)}
                   \cup ReplayOf("upsert_sources") :
      \E db \in {upsert_sources(GoldDb, sources)} :
        /\ Account("upsert_sources", sources,
                   IF sources = Null THEN 1 ELSE Len(sources[1]))
        /\ SetDb(db)
        /\ lastResult' = [status |-> "ok",
                          count |-> IF sources = Null THEN Len(DefaultSources)
                                    ELSE Len(sources[1])]

\* the registry before any discovery, with no budget to run it
NoDiscovery == [new_count |-> 0, updated_count |-> 0, regions_seen |-> <<>>]
NoLifecycle == [stale_count |-> 0, inactive_count |-> 0,
                stale_regions |-> <<>>, inactive_regions |-> <<>>]

InitRegistry ==
    /\ AssetRegions = {} /\ seqAsset = 0 /\ clock = 0
    /\ lcCall = [op |-> "none", arg |-> <<>>]
    /\ discovery = NoDiscovery
    /\ lifecycle = NoLifecycle

RegistryIdle ==
    /\ InitRegistry
    /\ staleness_hours = DEFAULT_STALENESS_HOURS
    /\ inactive_hours = DEFAULT_INACTIVE_HOURS
    /\ lcBudget = 0

GoldIdle ==
    /\ DIM_REGION = {} /\ DIM_TIME = {} /\ DIM_SOURCE = {} /\ FACT_ENERGY_FLOW = {}
    /\ seqRegion = 0 /\ seqTime = 0 /\ seqSource = 0 /\ seqFact = 0
    /\ lastCall = [op |-> "none", arg |-> <<>>]
    /\ lastResult = [status |-> "none", count |-> 0]
    /\ replayed = FALSE
    /\ capacity_data = [s \in {} |-> 0]
    /\ budget = 0

\* no Silver run
SilverIdle ==
    /\ silverSource = "none" /\ bronzeInput = <<>> /\ silverDone = FALSE
    /\ silverRows = <<>> /\ silverFiles = {}
    /\ silverSummary = [status |-> "none"]

\* no apply_quality_rules call
QualityIdle ==
    /\ qualityInput = <<>> /\ qualityRules = <<>> /\ qualityDone = FALSE
    /\ qualityOutput = <<>>
    /\ qualityMetrics = [input_rows |-> 0]

NoOutcome == [kind |-> "none", error |-> "", status |-> ""]

\* no call on a path
PathIdle ==
    /\ pathOp = "none" /\ pathKind = "missing" /\ pathFiles = <<>>
    /\ pathDone = FALSE /\ pathOutcome = NoOutcome /\ pathWritten = {}

\* results = {"job_id": job_id, "stages": {}}: no stage result, no status,
\* no failed_stage
NewResults ==
    [stages |-> [bronze |-> Null, silver |-> Null, gold |-> Null],
     status |-> Null, failed_stage |-> Null]

\* no pipeline run
PipelineIdle ==
    /\ local_mode = FALSE /\ pipePc = "idle" /\ results = NewResults
    /\ stagesRun = <<>> /\ pipeRuns = 0
    /\ bronzeStore = 0 /\ silverStore = 0 /\ goldStore = 0

\* no query_production call
QueryIdle == queryLoaded = FALSE /\ queryCall = Null /\ pages = <<>>

\* no CSV ingestion
CsvIdle ==
    /\ csvAudit = FALSE /\ csvCall = [op |-> "none", arg |-> <<>>]
    /\ csvResults = <<>> /\ capacityArea = <<>> /\ errorsArea = <<>>
    /\ csvBudget = 0

\* no request
RetryIdle ==
    /\ attempt = 0 /\ retryPc = "idle" /\ last_error = Null
    /\ responses = <<>> /\ slept = <<>>
    /\ retryOutcome = [kind |-> "none", message |-> "", status_code |-> Null]

\* no statement-by-statement load
CommitIdle ==
    /\ loadPc = "idle" /\ loadBatch = [rows |-> <<>>, hasLabel |-> FALSE]
    /\ loadRegions = <<>> /\ loadTimestamps = <<>> /\ loadRow = 0
    /\ conn = EmptyDb /\ rows_loaded = 0 /\ loadStart = EmptyDb
    /\ loadFailedAt = "" /\ loadCalls = 0

\* no grid point mapped
MapIdle == gridPoint = [latitude |-> 0, longitude |-> 0] /\ pointRegion = Null

\* no ERA5 file
ChunkIdle ==
    /\ era5Input = <<>> /\ wholeResult = Null /\ chunkPc = "none"
    /\ current = Null /\ max_time = Null
    /\ total_rows = 0 /\ total_files = 0 /\ all_regions = {}
    /\ chunks = <<>> /\ chunkedResult = Null

\* an empty Silver directory, no call yet
DirIdle ==
    /\ silverDir = {} /\ dirPc = "first" /\ dirInput = <<>> /\ dirRows = <<>>
    /\ dirBefore = {}

LaterIdle == CommitIdle /\ MapIdle /\ ChunkIdle /\ DirIdle

OtherIdle ==
    /\ QualityIdle /\ PathIdle /\ PipelineIdle /\ QueryIdle /\ CsvIdle /\ RetryIdle
    /\ LaterIdle

InitGoldTables ==
    /\ RegistryIdle
    /\ SilverIdle
    /\ OtherIdle
    /\ DIM_REGION = {} /\ DIM_TIME = {} /\ DIM_SOURCE = {} /\ FACT_ENERGY_FLOW = {}
    /\ seqRegion = 0 /\ seqTime = 0 /\ seqSource = 0 /\ seqFact = 0
    /\ lastCall = [op |-> "none", arg |-> <<>>]
    /\ lastResult = [status |-> "none", count |-> 0]
    /\ replayed = FALSE
    /\ capacity_data \in Capacities

\* a Gold run: dimension upserts and fact loads on a new database
InitGold == InitGoldTables /\ budget = MaxItems
NextGold == LoadFromSilver \/ UpsertRegions \/ UpsertTime \/ UpsertSources
SpecGold == InitGold /\ [][NextGold]_vars

\* a dimension-only run
InitDim == InitGoldTables /\ budget = MaxDimItems
NextDim == UpsertRegions \/ UpsertTime \/ UpsertSources
SpecDim == InitDim /\ [][NextDim]_vars

(***************************************************************************)
(* The region registry: AssetDiscovery.discover_regions and                *)
(* AssetLifecycle.check_staleness.  Instants are whole hours; isoformat    *)
(* strings of UTC instants compare as the instants do.                     *)
(***************************************************************************)
\* str.strip() on the texts the Bronze records carry
strip(s) ==
    CASE s = " 11" -> "11"
      [] s = "  " -> ""
      [] s = "IDF " -> "IDF"
      [] OTHER -> s

BronzeRecords ==
    { [code_insee_region |-> "11", libelle_region |-> "Ile-de-France"],
      [code_insee_region |-> " 11", libelle_region |-> "IDF "],
      [code_insee_region |-> "84", libelle_region |-> "Auvergne-Rhone-Alpes"],
      [code_insee_region |-> "  ", libelle_region |-> "Nowhere"] }

\* the environment's choice of STALENESS_THRESHOLD_HOURS and
\* INACTIVE_THRESHOLD_HOURS: unset, or set with the two the wrong way round
ThresholdSettings ==
    { <<DEFAULT_STALENESS_HOURS, DEFAULT_INACTIVE_HOURS>>,
      <<DEFAULT_INACTIVE_HOURS, DEFAULT_STALENESS_HOURS>> }

\* hours the clock may advance in one step
ClockAdvances == {1, DEFAULT_STALENESS_HOURS, DEFAULT_INACTIVE_HOURS - DEFAULT_STALENESS_HOURS}
\* check_staleness(now): now is the clock, or an instant the caller passes
NowOffsets == {0, DEFAULT_STALENESS_HOURS, DEFAULT_INACTIVE_HOURS}

Registry == [rows |-> AssetRegions, seq |-> seqAsset]

\* seen_regions without `code not in seen_regions`: every record with a
\* non-empty code adds an item
RECURSIVE SeenRegionsAll(_, _)
SeenRegionsAll(bronze_records, seen) ==
    IF bronze_records = <<>> THEN seen
    ELSE LET code == strip(Head(bronze_records).code_insee_region)
             label == strip(Head(bronze_records).libelle_region)
         IN  SeenRegionsAll(Tail(bronze_records),
                IF code # "" THEN Append(seen, [code |-> code, label |-> label])
                ELSE seen)

\* the seen_regions dict of discover_regions, as the list of its items in
\* insertion order: the first label of every non-empty stripped code
RECURSIVE SeenRegions(_, _)
SeenRegions(bronze_records, seen) ==
    IF bronze_records = <<>> THEN seen
    ELSE LET code == strip(Head(bronze_records).code_insee_region)
             label == strip(Head(bronze_records).libelle_region)
         IN  SeenRegions(Tail(bronze_records),
                IF code # "" /\ \A i \in DOMAIN seen : seen[i].code # code
                THEN Append(seen, [code |-> code, label |-> label])
                ELSE seen)

_get_existing_regions(db) == {r.code_insee_region : r \in db.rows}

_insert_region(db, code, label, now) ==
    [rows |-> db.rows \cup {[region_id |-> db.seq + 1,
                             code_insee_region |-> code,
                             libelle_region |-> label,
                             status |-> "active",
                             first_seen_at |-> now,
                             last_seen_at |-> now]},
     seq |-> db.seq + 1]

\* _update_last_seen without `status = 'active'` in its SET clause
_touch_last_seen(db, code, now) ==
    [db EXCEPT !.rows = {IF r.code_insee_region = code
                         THEN [r EXCEPT !.last_seen_at = now]
                         ELSE r : r \in db.rows}]

_update_last_seen(db, code, now) ==
    [db EXCEPT !.rows = {IF r.code_insee_region = code
                         THEN [r EXCEPT !.last_seen_at = now, !.status = "active"]
                         ELSE r : r \in db.rows}]

\* the loop `for code, label in seen_regions.items()`; st is the database
\* with the two counters
RECURSIVE SyncRegions(_, _, _, _)
SyncRegions(st, seen, existing_codes, now) ==
    IF seen = <<>> THEN st
    ELSE SyncRegions(
            IF Head(seen).code \notin existing_codes
            THEN [st EXCEPT !.db = _insert_region(st.db, Head(seen).code, Head(seen).label, now),
                            !.new_count = @ + 1]
            ELSE [st EXCEPT !.db = _update_last_seen(st.db, Head(seen).code, now),
                            !.updated_count = @ + 1],
            Tail(seen), existing_codes, now)

\* discover_regions: the database it leaves and the summary it returns
discover_regions(db, bronze_records, now) ==
    LET seen_regions == SeenRegions(bronze_records, <<>>)
    IN  IF seen_regions = <<>>
        THEN [db |-> db, summary |-> NoDiscovery]
        ELSE LET st == SyncRegions([db |-> db, new_count |-> 0, updated_count |-> 0],
                                   seen_regions, _get_existing_regions(db), now)
             IN  [db |-> st.db,
                  summary |-> [new_count |-> st.new_count,
                               updated_count |-> st.updated_count,
                               regions_seen |-> [i \in DOMAIN seen_regions |-> seen_regions[i].code]]]

\* _mark_stale with `last_seen_at <= ?`
_mark_stale_inclusive(db, threshold) ==
    LET stale == {r.code_insee_region : r \in
                    {q \in db.rows : q.status = "active" /\ q.last_seen_at <= threshold}}
    IN  [db |-> [db EXCEPT !.rows = {IF r.code_insee_region \in stale
                                     THEN [r EXCEPT !.status = "stale"]
                                     ELSE r : r \in db.rows}],
         codes |-> stale]

\* _mark_stale: the codes selected and the database after the UPDATE
_mark_stale(db, threshold) ==
    LET stale == {r.code_insee_region : r \in
                    {q \in db.rows : q.status = "active" /\ q.last_seen_at < threshold}}
    IN  [db |-> [db EXCEPT !.rows = {IF r.code_insee_region \in stale
                                     THEN [r EXCEPT !.status = "stale"]
                                     ELSE r : r \in db.rows}],
         codes |-> stale]

\* _mark_inactive with DELETE FROM DIM_REGION in place of its UPDATE
_purge_inactive(db, threshold) ==
    LET inactive == {r.code_insee_region : r \in
                       {q \in db.rows : q.status \in {"active", "stale"}
                                        /\ q.last_seen_at < threshold}}
    IN  [db |-> [db EXCEPT !.rows = {r \in db.rows : r.code_insee_region \notin inactive}],
         codes |-> inactive]

\* _mark_inactive selecting `status = 'stale'` only, as its docstring reads
_mark_inactive_stale_only(db, threshold) ==
    LET inactive == {r.code_insee_region : r \in
                       {q \in db.rows : q.status = "stale" /\ q.last_seen_at < threshold}}
    IN  [db |-> [db EXCEPT !.rows = {IF r.code_insee_region \in inactive
                                     THEN [r EXCEPT !.status = "inactive"]
                                     ELSE r : r \in db.rows}],
         codes |-> inactive]

\* _mark_inactive: the codes selected and the database after the UPDATE
_mark_inactive(db, threshold) ==
    LET inactive == {r.code_insee_region : r \in
                       {q \in db.rows : q.status \in {"active", "stale"}
                                        /\ q.last_seen_at < threshold}}
    IN  [db |-> [db EXCEPT !.rows = {IF r.code_insee_region \in inactive
                                     THEN [r EXCEPT !.status = "inactive"]
                                     ELSE r : r \in db.rows}],
         codes |-> inactive]

\* check_staleness: _mark_inactive, then _mark_stale on what it left; the
\* two SELECTs return their codes in an order the database chooses
check_staleness(db, now, stale_hours, inact_hours) ==
    LET stale_threshold == now - stale_hours
        inactive_threshold == now - inact_hours
        marked_inactive == _mark_inactive(db, inactive_threshold)
        marked_stale == _mark_stale(marked_inactive.db, stale_threshold)
    IN  [db |-> marked_stale.db,
         stale |-> marked_stale.codes,
         inactive |-> marked_inactive.codes]

\* bookkeeping common to the registry actions
RegistryStep(op, arg, n) ==
    /\ Cost(n) <= lcBudget
    /\ lcBudget' = lcBudget - Cost(n)
    /\ lcCall' = [op |-> op, arg |-> arg]
    /\ UNCHANGED <<staleness_hours, inactive_hours, goldVars, silverVars, otherVars>>

DiscoverRegions ==
    \E bronze_records \in SeqUpTo(BronzeRecords, lcBudget) :
      \E r \in {discover_regions(Registry, bronze_records, clock)} :
        /\ RegistryStep("discover_regions", bronze_records, Len(bronze_records))
        /\ AssetRegions' = r.db.rows
        /\ seqAsset' = r.db.seq
        /\ discovery' = r.summary
        /\ UNCHANGED <<clock, lifecycle>>

CheckStaleness ==
    \E now \in {clock + d : d \in NowOffsets} :
      \E r \in {check_staleness(Registry, now, staleness_hours, inactive_hours)} :
        \E stale_regions \in Perms(r.stale), inactive_regions \in Perms(r.inactive) :
          /\ RegistryStep("check_staleness", now, 1)
          /\ AssetRegions' = r.db.rows
          /\ lifecycle' = [stale_count |-> Len(stale_regions),
                           inactive_count |-> Len(inactive_regions),
                           stale_regions |-> stale_regions,
                           inactive_regions |-> inactive_regions]
          /\ UNCHANGED <<seqAsset, clock, discovery>>

\* time passes between two calls
Tick ==
    \E d \in ClockAdvances :
        /\ RegistryStep("tick", d, 1)
        /\ clock' = clock + d
        /\ UNCHANGED <<AssetRegions, seqAsset, discovery, lifecycle>>

InitLifecycle ==
    /\ InitRegistry
    /\ SilverIdle
    /\ OtherIdle
    /\ \E t \in ThresholdSettings : staleness_hours = t[1] /\ inactive_hours = t[2]
    /\ lcBudget = MaxRegistryItems
    /\ GoldIdle

NextLifecycle == DiscoverRegions \/ CheckStaleness \/ Tick
SpecLifecycle == InitLifecycle /\ [][NextLifecycle]_vars

(***************************************************************************)
(* The Silver transformers (transformations/*.py).  A frame is a sequence  *)
(* of rows, a row a record of nullable values; every row of a frame has    *)
(* the frame's columns.                                                    *)
(***************************************************************************)
Columns(df) == IF df = <<>> THEN {} ELSE DOMAIN df[1]

\* the rows of df at the indices idx, in frame order, from index i on
RECURSIVE Pick(_, _, _)
Pick(df, idx, i) ==
    IF i > Len(df) THEN <<>>
    ELSE (IF i \in idx THEN <<df[i]>> ELSE <<>>) \o Pick(df, idx, i + 1)

\* the orders in which a frame's rows may come back from an operation that
\* does not maintain order
Shuffles(df) == {[i \in DOMAIN df |-> df[p[i]]] : p \in Perms(DOMAIN df)}

\* DataFrame.unique(subset=..., keep="last"): for every value of the subset
\* columns (null being one value) the last row bearing it; the order of the
\* rows returned is not specified
KeepLast(df, subset) ==
    Pick(df, {i \in DOMAIN df : \A j \in DOMAIN df :
                 (\A c \in subset : df[j][c] = df[i][c]) => j <= i}, 1)

\* DataFrame.unique(subset=...) with keep="first"
unique_keep_first(df, subset) ==
    Shuffles(Pick(df, {i \in DOMAIN df : \A j \in DOMAIN df :
                 (\A c \in subset : df[j][c] = df[i][c]) => i <= j}, 1))

unique(df, subset) == Shuffles(KeepLast(df, subset))

\* DataFrame.drop_nulls(subset=...)
drop_nulls(df, subset) ==
    Pick(df, {i \in DOMAIN df : \A c \in subset : df[i][c] # Null}, 1)

\* Expr.forward_fill() on one column: a null takes the last non-null value
\* above it in the frame, if there is one
forward_fill(df, col, i) ==
    LET above == {j \in 1..(i - 1) : df[j][col] # Null}
    IN  IF df[i][col] # Null \/ above = {} THEN df[i][col]
        ELSE df[CHOOSE j \in above : \A k \in above : k <= j][col]

NullCells(df, cols) == {<<i, c>> \in (DOMAIN df) \X cols : df[i][c] = Null}

\* data_quality.py: the rules of each source, in dict order
RTE_QUALITY_RULES ==
    << [col |-> "consommation_mw", strategy |-> "flag"],
       [col |-> "nucleaire_mw", strategy |-> "fill_zero"],
       [col |-> "date_heure", strategy |-> "drop"],
       [col |-> "code_insee_region", strategy |-> "drop"] >>

CAPACITY_QUALITY_RULES ==
    << [col |-> "code_insee_region", strategy |-> "drop"],
       [col |-> "puissance_installee_mw", strategy |-> "fill_zero"] >>

ERA5_QUALITY_RULES ==
    << [col |-> "wind_speed_100m", strategy |-> "fill_zero"],
       [col |-> "temperature_c", strategy |-> "forward_fill"] >>

\* the name f"{col}_is_null"
FlagColumn(col) == IF col = "consommation_mw" THEN "consommation_mw_is_null" ELSE "is_null"

RuleColumns(df, rules, strategy) ==
    {rules[i].col : i \in {k \in DOMAIN rules : rules[k].strategy = strategy}} \cap Columns(df)

\* apply_quality_rules with the DROP step moved after the fills and the flags
apply_quality_rules_drop_last(df, rules) ==
    LET fill_zero_cols == RuleColumns(df, rules, "fill_zero")
        filled == [i \in DOMAIN df |->
                     [c \in DOMAIN df[i] |->
                        IF c \in fill_zero_cols /\ df[i][c] = Null
                        THEN Some(0) ELSE df[i][c]]]
        ffill_cols == RuleColumns(filled, rules, "forward_fill")
        ffilled == [i \in DOMAIN filled |->
                      [c \in DOMAIN filled[i] |->
                         IF c \in ffill_cols THEN forward_fill(filled, c, i)
                         ELSE filled[i][c]]]
        flag_cols == {c \in RuleColumns(ffilled, rules, "flag") : NullCells(ffilled, {c}) # {}}
        flagged == [i \in DOMAIN ffilled |->
                      [c \in DOMAIN ffilled[i] \cup {FlagColumn(f) : f \in flag_cols} |->
                         IF c \in DOMAIN ffilled[i] THEN ffilled[i][c]
                         ELSE Some(\E f \in flag_cols :
                                     FlagColumn(f) = c /\ ffilled[i][f] = Null)]]
        drop_cols == RuleColumns(df, rules, "drop")
        dropped == IF drop_cols # {} THEN drop_nulls(flagged, drop_cols) ELSE flagged
    IN  [df |-> dropped,
         metrics |-> [input_rows |-> Len(df),
                      rows_dropped |-> Len(df) - Len(dropped),
                      values_filled |-> Cardinality(NullCells(df, fill_zero_cols))
                                        + Cardinality(NullCells(filled, ffill_cols)),
                      values_flagged |-> Cardinality(NullCells(ffilled, flag_cols)),
                      output_rows |-> Len(dropped)]]

\* apply_quality_rules: DROP, then FILL_ZERO, then FORWARD_FILL, then FLAG;
\* returns the cleaned frame and the metrics
apply_quality_rules(df, rules) ==
    LET drop_cols == RuleColumns(df, rules, "drop")
        dropped == IF drop_cols # {} THEN drop_nulls(df, drop_cols) ELSE df
        fill_zero_cols == RuleColumns(dropped, rules, "fill_zero")
        filled == [i \in DOMAIN dropped |->
                     [c \in DOMAIN dropped[i] |->
                        IF c \in fill_zero_cols /\ dropped[i][c] = Null
                        THEN Some(0) ELSE dropped[i][c]]]
        ffill_cols == RuleColumns(filled, rules, "forward_fill")
        ffilled == [i \in DOMAIN filled |->
                      [c \in DOMAIN filled[i] |->
                         IF c \in ffill_cols THEN forward_fill(filled, c, i)
                         ELSE filled[i][c]]]
        flag_cols == {c \in RuleColumns(ffilled, rules, "flag") : NullCells(ffilled, {c}) # {}}
        flagged == [i \in DOMAIN ffilled |->
                      [c \in DOMAIN ffilled[i] \cup {FlagColumn(f) : f \in flag_cols} |->
                         IF c \in DOMAIN ffilled[i] THEN ffilled[i][c]
                         ELSE Some(\E f \in flag_cols :
                                     FlagColumn(f) = c /\ ffilled[i][f] = Null)]]
    IN  [df |-> flagged,
         metrics |-> [input_rows |-> Len(df),
                      rows_dropped |-> Len(df) - Len(dropped),
                      values_filled |-> Cardinality(NullCells(dropped, fill_zero_cols))
                                        + Cardinality(NullCells(filled, ffill_cols)),
                      values_flagged |-> Cardinality(NullCells(ffilled, flag_cols)),
                      output_rows |-> Len(flagged)]]

\* polars str.to_datetime(time_zone="UTC", strict=False) on the texts the
\* Bronze records carry: an unparseable text becomes null
to_datetime(s) ==
    CASE s = Some("2025-06-15T10:00:00+00:00") ->
            Some([year |-> 2025, month |-> 6, day |-> 15, hour |-> 10])
      [] s = Some("2025-07-01T00:00:00+00:00") ->
            Some([year |-> 2025, month |-> 7, day |-> 1, hour |-> 0])
      [] OTHER -> Null

\* cast(pl.Utf8).str.strip_chars().cast(pl.Float64, strict=False)
cast_float(s) ==
    CASE s = Some("4") -> Some(4)
      [] s = Some(" 7 ") -> Some(7)
      [] OTHER -> Null

\* str.strip_chars().str.replace_all(r"\s+", " ")
clean_description(s) ==
    CASE s = Some("  pump   check ") -> Some("pump check")
      [] OTHER -> s

\* with_columns([pl.col(col).dt.year().alias("year"), ...]): the partition
\* columns added to every row, null where the timestamp is null
WithPartitionColumns(df, col, parts) ==
    [i \in DOMAIN df |->
        [c \in DOMAIN df[i] \cup parts |->
            IF c \in parts
            THEN (IF df[i][col] = Null THEN Null ELSE Some(df[i][col][1][c]))
            ELSE df[i][c]]]

\* DataFrame.drop(columns)
drop(df, columns) ==
    [i \in DOMAIN df |-> [c \in DOMAIN df[i] \ columns |-> df[i][c]]]

\* the groups of df.group_by(parts), each as the file the loop body writes
\* for it: the path components, and the rows without the partition columns
HiveFiles(df, col, parts) ==
    LET with == WithPartitionColumns(df, col, parts)
    IN  {[partition |-> [c \in parts |-> with[i][c]],
          rows |-> drop(Pick(with, {j \in DOMAIN with :
                                      \A c \in parts : with[j][c] = with[i][c]}, 1),
                        parts)]
            : i \in DOMAIN with}

\* the loop over the groups: f"month={month:02d}" raises TypeError on the
\* group of the rows without a timestamp, after the groups that came before
\* it in the unspecified order of group_by were written
HiveWrite(df, col, parts) ==
    LET groups == HiveFiles(df, col, parts)
        unnamed == {g \in groups : \E c \in parts : g.partition[c] = Null}
    IN  IF unnamed = {}
        THEN {[raised |-> FALSE, files |-> groups]}
        ELSE {[raised |-> TRUE, files |-> written] : written \in SUBSET (groups \ unnamed)}

\* a call that ended with an exception in the write loop
RaisedRun(df, files) ==
    [rows |-> df, files |-> files, summary |-> [status |-> "raised"]]

SingleFile(df) == {[partition |-> <<>>, rows |-> df]}

EmptyRun == [rows |-> <<>>, files |-> {}, summary |-> [status |-> "empty"]]

\* Bronze records of each source
T1 == "2025-06-15T10:00:00+00:00"
T2 == "2025-07-01T00:00:00+00:00"

RteRecord(code, date_heure, nucleaire, consommation) ==
    [code_insee_region |-> code, date_heure |-> date_heure,
     nucleaire |-> nucleaire, consommation |-> consommation]

RteRecords ==
    { RteRecord(Some("11"), Some(T1), Some("4"), Some(9)),
      RteRecord(Some("11"), Some(T1), Some(" 7 "), Null),
      RteRecord(Some("11"), Some(T2), Null, Some(9)),
      RteRecord(Some("84"), Some(T1), Some("ND"), Some(9)),
      RteRecord(Null, Some(T1), Some("4"), Some(9)),
      RteRecord(Some("11"), Some(BadTimestamp), Some("4"), Some(9)) }

MaintenanceRecord(event_id, start_date, description) ==
    [event_id |-> event_id, start_date |-> start_date, description |-> description]

MaintenanceRecords ==
    { MaintenanceRecord(Some("MNT-1"), Some(T1), Some("  pump   check ")),
      MaintenanceRecord(Some("MNT-1"), Some(T2), Some("valve")),
      MaintenanceRecord(Some("MNT-1"), Some(T1), Null),
      MaintenanceRecord(Some("MNT-2"), Some(T1), Some("valve")),
      MaintenanceRecord(Some("MNT-3"), Some(""), Some("valve")) }

CapacityRecord(code, filiere, puissance) ==
    [code_insee_region |-> code, filiere |-> filiere, puissance_installee_mw |-> puissance]

CapacityRecords ==
    { CapacityRecord(Some("11"), Some("eolien"), Some(3)),
      CapacityRecord(Some("11"), Some("eolien"), Some(5)),
      CapacityRecord(Some("11"), Some("eolien"), Null),
      CapacityRecord(Some("11"), Some("solaire"), Some(3)),
      CapacityRecord(Null, Some("eolien"), Some(3)) }

Era5Record(region, valid_time, temperature, wind) ==
    [region_code |-> region, valid_time |-> to_datetime(valid_time),
     temperature_c |-> temperature, wind_speed_100m |-> wind]

Era5Records ==
    { Era5Record(Some("11"), Some(T1), Some(5), Some(3)),
      Era5Record(Some("11"), Some(T1), Null, Null),
      Era5Record(Some("11"), Some(T2), Some(8), Some(3)),
      Era5Record(Some("84"), Some(T1), Null, Some(6)) }

\* the frame of rte_silver.py before its dedup: MW columns cast and
\* renamed, date_heure parsed
RteFrame(records) ==
    [i \in DOMAIN records |->
        [code_insee_region |-> records[i].code_insee_region,
         date_heure |-> to_datetime(records[i].date_heure),
         nucleaire_mw |-> cast_float(records[i].nucleaire),
         consommation_mw |-> records[i].consommation]]

\* the frame of maintenance_silver.py before its dedup: start_date parsed,
\* description cleaned
MaintenanceFrame(records) ==
    [i \in DOMAIN records |->
        [event_id |-> records[i].event_id,
         start_date |-> to_datetime(records[i].start_date),
         description |-> clean_description(records[i].description)]]

\* rte_silver.py: cast, rename, parse date_heure; dedup; quality rules;
\* Hive-partitioned write by year/month/day.  The set of runs the
\* unspecified row order of unique() allows.
transform_rte_to_silver(records) ==
    IF records = <<>> THEN {EmptyRun}
    ELSE LET df == RteFrame(records)
         IN  UNION {
               LET q == apply_quality_rules(deduped, RTE_QUALITY_RULES)
               IN  { IF w.raised THEN RaisedRun(q.df, w.files)
                     ELSE [rows |-> q.df, files |-> w.files,
                           summary |-> [status |-> "success",
                                        input_rows |-> Len(df),
                                        output_rows |-> Len(q.df),
                                        duplicates_removed |-> Some(Len(df) - Len(deduped)),
                                        files_written |-> Cardinality(w.files),
                                        quality |-> Some(q.metrics)]]
                     : w \in HiveWrite(q.df, "date_heure", {"year", "month", "day"}) }
               : deduped \in unique(df, {"code_insee_region", "date_heure"}) }

\* maintenance_silver.py: parse start_date, clean description, dedup on
\* event_id, write partitioned by year/month of start_date
transform_maintenance_to_silver(records) ==
    IF records = <<>> THEN {EmptyRun}
    ELSE LET df == MaintenanceFrame(records)
         IN  UNION {
               { IF w.raised THEN RaisedRun(deduped, w.files)
                 ELSE [rows |-> deduped, files |-> w.files,
                       summary |-> [status |-> "success",
                                    input_rows |-> Len(df),
                                    output_rows |-> Len(deduped),
                                    duplicates_removed |-> Some(Len(df) - Len(deduped)),
                                    files_written |-> Cardinality(w.files),
                                    quality |-> Null]]
                 : w \in HiveWrite(deduped, "start_date", {"year", "month"}) }
               : deduped \in unique(df, {"event_id"}) }

\* capacity_silver.py: quality rules, then dedup on (code_insee_region,
\* filiere), one output file
transform_capacity_to_silver(records) ==
    LET q == apply_quality_rules(records, CAPACITY_QUALITY_RULES)
        dedup_cols == {"code_insee_region", "filiere"} \cap Columns(q.df)
    IN  { [rows |-> deduped, files |-> SingleFile(deduped),
           summary |-> [status |-> "success",
                        input_rows |-> Len(q.df),
                        output_rows |-> Len(deduped),
                        duplicates_removed |-> Null,
                        files_written |-> 1,
                        quality |-> Some(q.metrics)]]
          : deduped \in IF dedup_cols # {} THEN unique(q.df, dedup_cols) ELSE {q.df} }

\* era5_silver.py: quality rules, then dedup on (region_code, valid_time),
\* write partitioned by year/month of valid_time
transform_era5_to_silver(records) ==
    LET q == apply_quality_rules(records, ERA5_QUALITY_RULES)
    IN  UNION {
          { IF w.raised THEN RaisedRun(deduped, w.files)
            ELSE [rows |-> deduped, files |-> w.files,
                  summary |-> [status |-> "success",
                               input_rows |-> Len(q.df),
                               output_rows |-> Len(deduped),
                               duplicates_removed |-> Null,
                               files_written |-> Cardinality(w.files),
                               quality |-> Some(q.metrics)]]
            : w \in HiveWrite(deduped, "valid_time", {"year", "month"}) }
          : deduped \in IF {"region_code", "valid_time"} \subseteq Columns(q.df)
                        THEN unique(q.df, {"region_code", "valid_time"})
                        ELSE {q.df} }

\* the transformer of each dataset
Transform(source, records) ==
    CASE source = "telemetry" -> transform_rte_to_silver(records)
      [] source = "maintenance" -> transform_maintenance_to_silver(records)
      [] source = "capacity" -> transform_capacity_to_silver(records)
      [] source = "climate" -> transform_era5_to_silver(records)

\* one transformer run on the Bronze input drawn at the start
SilverRun(source, runs) ==
    /\ silverSource = source /\ ~silverDone
    /\ \E r \in runs :
         /\ silverRows' = r.rows
         /\ silverFiles' = r.files
         /\ silverSummary' = r.summary
    /\ silverDone' = TRUE
    /\ UNCHANGED <<silverSource, bronzeInput, goldVars, lifecycleVars, otherVars>>

TransformRte == SilverRun("telemetry", transform_rte_to_silver(bronzeInput))
TransformMaintenance == SilverRun("maintenance", transform_maintenance_to_silver(bronzeInput))
TransformCapacity == SilverRun("capacity", transform_capacity_to_silver(bronzeInput))
TransformEra5 == SilverRun("climate", transform_era5_to_silver(bronzeInput))

BronzeOf(source) ==
    CASE source = "telemetry" -> RteRecords
      [] source = "maintenance" -> MaintenanceRecords
      [] source = "capacity" -> CapacityRecords
      [] source = "climate" -> Era5Records

InitSilver ==
    /\ silverSource \in {"telemetry", "maintenance", "capacity", "climate"}
    /\ bronzeInput \in SeqUpTo(BronzeOf(silverSource), MaxRecs)
    /\ silverDone = FALSE
    /\ silverRows = <<>> /\ silverFiles = {}
    /\ silverSummary = [status |-> "none"]
    /\ GoldIdle
    /\ RegistryIdle
    /\ OtherIdle

NextSilver == TransformRte \/ TransformMaintenance \/ TransformCapacity \/ TransformEra5
SpecSilver == InitSilver /\ [][NextSilver]_vars

(***************************************************************************)
(* apply_quality_rules on its own (data_quality.py): the caller gives any  *)
(* frame and any rule table.  The frames have one column per strategy; the *)
(* tables hold the same rules in several orders, one of them with a DROP   *)
(* rule on a column the frame does not have.                               *)
(***************************************************************************)
QualityRows ==
    [code_insee_region : {Null, Some("11")},
     nucleaire_mw : {Null, Some(1)},
     temperature_c : {Null, Some(1), Some(2)},
     consommation_mw : {Null, Some(1)}]

DropRegion == [col |-> "code_insee_region", strategy |-> "drop"]
DropDate == [col |-> "date_heure", strategy |-> "drop"]
FillNuclear == [col |-> "nucleaire_mw", strategy |-> "fill_zero"]
FillTemperature == [col |-> "temperature_c", strategy |-> "forward_fill"]
FlagConsumption == [col |-> "consommation_mw", strategy |-> "flag"]

QualityRuleTables ==
    { <<DropRegion, FillNuclear, FillTemperature, FlagConsumption>>,
      <<FlagConsumption, FillTemperature, FillNuclear, DropRegion>>,
      <<FillTemperature, DropRegion, FlagConsumption, FillNuclear>>,
      <<FillNuclear, FlagConsumption, DropDate, FillTemperature, DropRegion>>,
      <<FlagConsumption, FillNuclear>> }

ApplyQualityRules ==
    /\ ~qualityDone
    /\ \E r \in {apply_quality_rules(qualityInput, qualityRules)} :
          /\ qualityOutput' = r.df
          /\ qualityMetrics' = r.metrics
    /\ qualityDone' = TRUE
    /\ UNCHANGED <<qualityInput, qualityRules, goldVars, lifecycleVars, silverVars,
                   pathVars, pipelineVars, queryVars, csvVars, retryVars, laterVars>>

InitQuality ==
    /\ qualityInput \in SeqUpTo(QualityRows, MaxQualityRows)
    /\ qualityRules \in QualityRuleTables
    /\ qualityDone = FALSE
    /\ qualityOutput = <<>>
    /\ qualityMetrics = [input_rows |-> 0]
    /\ GoldIdle
    /\ RegistryIdle
    /\ SilverIdle
    /\ PathIdle
    /\ PipelineIdle
    /\ QueryIdle
    /\ CsvIdle
    /\ RetryIdle
    /\ LaterIdle

NextQuality == ApplyQualityRules
SpecQuality == InitQuality /\ [][NextQuality]_vars

(***************************************************************************)
(* The path given to a transformer or to load_from_silver: the             *)
(* is_file / is_dir / else branches at the head of each function.          *)
(***************************************************************************)
RECURSIVE Flatten(_)
Flatten(files) == IF files = <<>> THEN <<>> ELSE Head(files) \o Flatten(Tail(files))

Raised(error) == [kind |-> "raised", error |-> error, status |-> ""]
Returned(status) == [kind |-> "returned", error |-> "", status |-> status]

\* the else branch taken as an empty directory
LoadPathLenient(kind, files) ==
    IF kind = "file"
    THEN [found |-> TRUE, matched |-> TRUE, records |-> Head(files)]
    ELSE [found |-> TRUE, matched |-> kind = "dir" /\ files # <<>>,
          records |-> Flatten(files)]

\* bronze_path.is_file() / is_dir() / else: whether the path exists, whether
\* it gave at least one file to read, and the records read
LoadPath(kind, files) ==
    IF kind = "file"
    THEN [found |-> TRUE, matched |-> TRUE, records |-> Head(files)]
    ELSE IF kind = "dir"
         THEN [found |-> TRUE, matched |-> files # <<>>, records |-> Flatten(files)]
         ELSE [found |-> FALSE, matched |-> FALSE, records |-> <<>>]

\* a transformer called on a path: the ways the call may end, each with the
\* Silver files written
TransformPath(source, kind, files) ==
    LET l == LoadPath(kind, files)
    IN  IF ~l.found
        THEN {[outcome |-> Raised("FileNotFoundError"), files |-> {}]}
        ELSE IF ~l.matched
             THEN {[outcome |-> Returned("empty"), files |-> {}]}
             ELSE {[outcome |-> IF r.summary.status = "raised" THEN Raised("TypeError")
                                ELSE Returned(r.summary.status),
                    files |-> r.files] :
                      r \in Transform(source, l.records)}

\* load_from_silver called on a path: the ways the call may end, each with
\* the database it leaves
LoadSilverPath(db, kind, files, capacity) ==
    LET l == LoadPath(kind, files)
        batch == [rows |-> l.records, hasLabel |-> TRUE]
    IN  IF ~l.found
        THEN {[outcome |-> Raised("FileNotFoundError"), db |-> db]}
        ELSE IF ~l.matched
             THEN {[outcome |-> Returned("empty"), db |-> db]}
             ELSE {[outcome |-> Returned(r.status), db |-> r.db] :
                      r \in {load_from_silver(db, batch, capacity, regions, timestamps) :
                                regions \in Perms(BatchRegions(batch)),
                                timestamps \in Perms(BatchTimestamps(batch))}}

\* two records of each dataset, and two Silver rows
PathRecords(op) ==
    CASE op = "telemetry" ->
           { RteRecord(Some("11"), Some(T1), Some("4"), Some(9)),
             RteRecord(Some("84"), Some(T1), Some("ND"), Some(9)) }
      [] op = "maintenance" ->
           { MaintenanceRecord(Some("MNT-1"), Some(T1), Some("valve")),
             MaintenanceRecord(Some("MNT-2"), Some(T1), Some("valve")) }
      [] op = "capacity" ->
           { CapacityRecord(Some("11"), Some("eolien"), Some(3)),
             CapacityRecord(Some("11"), Some("solaire"), Some(3)) }
      [] op = "climate" ->
           { Era5Record(Some("11"), Some(T1), Some(5), Some(3)),
             Era5Record(Some("84"), Some(T1), Null, Some(6)) }
      [] op = "load_from_silver" ->
           {r \in SilverRows : r.date_heure = T1 /\ r.cols = MeasureCols(Some(4), Some(2), Some(5))}

Transformers == {"telemetry", "maintenance", "capacity", "climate"}

TransformOnPath ==
    /\ pathOp \in Transformers /\ ~pathDone
    /\ \E r \in TransformPath(pathOp, pathKind, pathFiles) :
          /\ pathOutcome' = r.outcome
          /\ pathWritten' = r.files
    /\ pathDone' = TRUE
    /\ UNCHANGED <<pathOp, pathKind, pathFiles, goldVars, lifecycleVars,
                   silverVars, qualityVars, pipelineVars, queryVars, csvVars,
                   retryVars, laterVars>>

LoadFromSilverOnPath ==
    /\ pathOp = "load_from_silver" /\ ~pathDone
    /\ \E r \in LoadSilverPath(GoldDb, pathKind, pathFiles, capacity_data) :
          /\ pathOutcome' = r.outcome
          /\ SetDb(r.db)
    /\ pathDone' = TRUE
    /\ UNCHANGED <<pathOp, pathKind, pathFiles, pathWritten, capacity_data,
                   lastCall, lastResult, replayed, budget, lifecycleVars,
                   silverVars, qualityVars, pipelineVars, queryVars, csvVars,
                   retryVars, laterVars>>

InitPath ==
    /\ pathOp \in Transformers \cup {"load_from_silver"}
    /\ pathKind \in {"missing", "file", "dir"}
    /\ pathFiles \in SeqUpTo(SeqUpTo(PathRecords(pathOp), MaxFileRecs), MaxPathFiles)
    /\ pathKind = "missing" => pathFiles = <<>>
    /\ pathKind = "file" => Len(pathFiles) = 1
    /\ pathDone = FALSE /\ pathOutcome = NoOutcome /\ pathWritten = {}
    /\ GoldIdle
    /\ RegistryIdle
    /\ SilverIdle
    /\ QualityIdle
    /\ PipelineIdle
    /\ QueryIdle
    /\ CsvIdle
    /\ RetryIdle
    /\ LaterIdle

NextPath == TransformOnPath \/ LoadFromSilverOnPath
SpecPath == InitPath /\ [][NextPath]_vars

(***************************************************************************)
(* run_full_pipeline (function_app.py), one step per stage.  What a stage  *)
(* does inside is left open: it ends with a result or with an exception,   *)
(* and may have written to its store before.                               *)
(***************************************************************************)
OutsidePipeline ==
    <<goldVars, lifecycleVars, silverVars, qualityVars, pathVars, queryVars,
      csvVars, retryVars, laterVars>>

\* the call: a new results dict
StartPipeline ==
    /\ pipePc \in {"idle", "returned"} /\ pipeRuns < MaxPipelineRuns
    /\ local_mode' \in BOOLEAN
    /\ results' = NewResults
    /\ stagesRun' = <<>>
    /\ pipeRuns' = pipeRuns + 1
    /\ pipePc' = "bronze"
    /\ UNCHANGED <<bronzeStore, silverStore, goldStore, OutsidePipeline>>

\* Stage 1: run_ingestion returns an audit entry, success (with a Bronze file
\* written, or without when the API gave no record) or failure
BronzeStage ==
    /\ pipePc = "bronze"
    /\ stagesRun' = Append(stagesRun, "bronze")
    /\ \E status \in {"success", "failure"}, written \in 0..1 :
         /\ status = "failure" => written = 0
         /\ bronzeStore' = bronzeStore + written
         /\ IF status = "failure"
            THEN /\ results' = [results EXCEPT !.stages.bronze = Some(status),
                                               !.status = Some("failure"),
                                               !.failed_stage = Some("bronze")]
                 /\ pipePc' = "returned"
            ELSE /\ results' = [results EXCEPT !.stages.bronze = Some(status)]
                 /\ pipePc' = "silver"
    /\ UNCHANGED <<local_mode, pipeRuns, silverStore, goldStore, OutsidePipeline>>

\* Stage 2 with an except clause that records the failure and goes on
SilverStageGoesOn ==
    /\ pipePc = "silver"
    /\ stagesRun' = Append(stagesRun, "silver")
    /\ \E raised \in BOOLEAN, written \in 0..1 :
         /\ ~local_mode => (raised /\ written = 0)
         /\ silverStore' = silverStore + written
         /\ results' = [results EXCEPT !.stages.silver =
                           Some(IF raised THEN "failure" ELSE "success")]
         /\ pipePc' = "gold"
    /\ UNCHANGED <<local_mode, pipeRuns, bronzeStore, goldStore, OutsidePipeline>>

\* Stage 2.  In local mode transform_rte_to_silver runs on every Bronze
\* file found; an exception may come after some Silver files are written.
\* Outside local mode the stage calls bronze.list_recent_files, a method
\* BronzeStorage does not have: the stage raises at once.
SilverStage ==
    /\ pipePc = "silver"
    /\ stagesRun' = Append(stagesRun, "silver")
    /\ \E raised \in BOOLEAN, written \in 0..1 :
         /\ ~local_mode => (raised /\ written = 0)
         /\ silverStore' = silverStore + written
         /\ IF raised
            THEN /\ results' = [results EXCEPT !.stages.silver = Some("failure"),
                                               !.status = Some("partial"),
                                               !.failed_stage = Some("silver")]
                 /\ pipePc' = "returned"
            ELSE /\ results' = [results EXCEPT !.stages.silver = Some("success")]
                 /\ pipePc' = "gold"
    /\ UNCHANGED <<local_mode, pipeRuns, bronzeStore, goldStore, OutsidePipeline>>

\* Stage 3: the connection, the schema, load_from_silver on the Silver
\* directory (success or empty), or an exception from any of them; then
\* results["status"] = "success"
GoldStage ==
    /\ pipePc = "gold"
    /\ stagesRun' = Append(stagesRun, "gold")
    /\ \E outcome \in {"success", "empty", "raised"}, written \in 0..1 :
         /\ outcome # "success" => written = 0
         /\ goldStore' = goldStore + written
         /\ IF outcome = "raised"
            THEN results' = [results EXCEPT !.stages.gold = Some("failure"),
                                            !.status = Some("partial"),
                                            !.failed_stage = Some("gold")]
            ELSE results' = [results EXCEPT !.stages.gold = Some(outcome),
                                            !.status = Some("success")]
    /\ pipePc' = "returned"
    /\ UNCHANGED <<local_mode, pipeRuns, bronzeStore, silverStore, OutsidePipeline>>

InitPipeline ==
    /\ PipelineIdle
    /\ GoldIdle
    /\ RegistryIdle
    /\ SilverIdle
    /\ QualityIdle
    /\ PathIdle
    /\ QueryIdle
    /\ CsvIdle
    /\ RetryIdle
    /\ LaterIdle

NextPipeline == StartPipeline \/ BronzeStage \/ SilverStage \/ GoldStage
SpecPipeline == InitPipeline /\ [][NextPipeline]_vars

(***************************************************************************)
(* query_production (api/production_service.py) on the Gold tables.        *)
(***************************************************************************)
\* the place of a text in SQL text order, for the codes and timestamps of
\* the model
Collate(text) ==
    CASE text = "11" -> 1
      [] text = "84" -> 2
      [] text = "99" -> 3
      [] text = "2025-06-13T10:00:00+00:00" -> 4
      [] text = "2025-06-15T10:00:00+00:00" -> 5
      [] OTHER -> 0

\* Python truth of an optional string argument
Given(arg) == arg # Null /\ arg # Some("")

\* FROM FACT_ENERGY_FLOW f JOIN DIM_REGION r ... JOIN DIM_TIME t ... JOIN
\* DIM_SOURCE s ...: the selected columns of every joined row
JoinedRows(db) ==
    {[code_insee |-> r.code_insee, nom_region |-> r.nom_region,
      horodatage |-> t.horodatage, source_name |-> src.source_name,
      valeur_mw |-> f.valeur_mw, facteur_charge |-> f.facteur_charge] :
        <<f, r, t, src>> \in
           {x \in db.fact \X db.region \X db.time \X db.source :
               /\ x[1].id_region = x[2].id_region
               /\ x[1].id_date = x[3].id_date
               /\ x[1].id_source = x[4].id_source}}

\* the WHERE clause without the region condition
WhereAnyRegion(row, q) ==
    /\ Given(q.start_date) => Collate(row.horodatage) >= Collate(q.start_date[1])
    /\ Given(q.end_date) => Collate(row.horodatage) <= Collate(q.end_date[1])
    /\ Given(q.source_type) => row.source_name = q.source_type[1]

\* the WHERE clause build_production_query assembles
Where(row, q) ==
    /\ Given(q.region_code) => row.code_insee = q.region_code[1]
    /\ Given(q.start_date) => Collate(row.horodatage) >= Collate(q.start_date[1])
    /\ Given(q.end_date) => Collate(row.horodatage) <= Collate(q.end_date[1])
    /\ Given(q.source_type) => row.source_name = q.source_type[1]

\* ORDER BY t.horodatage DESC, r.code_insee; rows equal on both come in the
\* order the engine picked, here the order tie gives to their sources
Before(a, b, tie) ==
    \/ Collate(a.horodatage) > Collate(b.horodatage)
    \/ /\ a.horodatage = b.horodatage
       /\ \/ Collate(a.code_insee) < Collate(b.code_insee)
          \/ /\ a.code_insee = b.code_insee
             /\ \E i, j \in DOMAIN tie :
                   i < j /\ tie[i] = a.source_name /\ tie[j] = b.source_name

RECURSIVE OrderBy(_, _)
OrderBy(rows, tie) ==
    IF rows = {} THEN <<>>
    ELSE LET first == CHOOSE a \in rows : \A b \in rows \ {a} : Before(a, b, tie)
         IN  <<first>> \o OrderBy(rows \ {first}, tie)

\* LIMIT ? OFFSET ?
LimitOffset(rows, limit, offset) ==
    SubSeq(rows, offset + 1, IF offset + limit < Len(rows) THEN offset + limit ELSE Len(rows))

\* cursor.execute(sql, params); cursor.fetchall()
fetchall(db, q, offset, tie) ==
    LimitOffset(OrderBy({row \in JoinedRows(db) : Where(row, q)}, tie), q.limit, offset)

RECURSIVE _aggregate_rows(_, _)
\* _aggregate_rows: one record per (code_insee, horodatage) in order of first
\* appearance; sources maps each source of the rows seen to its valeur_mw
_aggregate_rows(rows, aggregated) ==
    IF rows = <<>> THEN aggregated
    ELSE LET r == Head(rows)
             hit == {i \in DOMAIN aggregated :
                        /\ aggregated[i].code_insee = r.code_insee
                        /\ aggregated[i].timestamp = r.horodatage}
             new == [code_insee |-> r.code_insee, region |-> r.nom_region,
                     timestamp |-> r.horodatage,
                     sources |-> {<<r.source_name, r.valeur_mw>>},
                     facteur_charge |-> r.facteur_charge]
             put(rec) == [rec EXCEPT !.sources =
                            {p \in @ : p[1] # r.source_name}
                               \cup {<<r.source_name, r.valeur_mw>>}]
         IN  _aggregate_rows(Tail(rows),
                IF hit = {} THEN Append(aggregated, new)
                ELSE [i \in DOMAIN aggregated |->
                        IF i \in hit THEN put(aggregated[i]) ELSE aggregated[i]])

\* query_production: the response envelope
query_production(db, q, offset, tie) ==
    LET data == _aggregate_rows(fetchall(db, q, offset, tie), <<>>)
    IN  [total_records |-> Len(data), limit |-> q.limit, offset |-> offset,
         data |-> data]

\* the Silver rows loaded before the queries: three (region, timestamp)
\* pairs with two sources, one with a single source
QueryRow(code, date_heure, cols) ==
    [code_insee_region |-> code, libelle_region |-> LabelOf(code),
     date_heure |-> date_heure, cols |-> cols]

QueryRows ==
    { QueryRow("11", "2025-06-13T10:00:00+00:00", MeasureCols(Some(4), Some(2), Null)),
      QueryRow("11", "2025-06-15T10:00:00+00:00", MeasureCols(Some(4), Some(2), Null)),
      QueryRow("84", "2025-06-15T10:00:00+00:00", MeasureCols(Some(4), Some(2), Null)),
      QueryRow("84", "2025-06-13T10:00:00+00:00", MeasureCols(Null, Some(1), Null)) }

Filters(region_code, start_date, end_date, source_type) ==
    [region_code |-> region_code, start_date |-> start_date,
     end_date |-> end_date, source_type |-> source_type]

QueryFilters ==
    { Filters(Null, Null, Null, Null),
      Filters(Some("11"), Null, Null, Null),
      Filters(Some("84"), Null, Null, Null),
      Filters(Some("99"), Null, Null, Null),
      Filters(Some(""), Null, Null, Some("eolien")),
      Filters(Some("11"), Some("2025-06-15T10:00:00+00:00"), Null, Null),
      Filters(Null, Null, Some("2025-06-13T10:00:00+00:00"), Null) }

QueryLimits == {1, 2, DEFAULT_LIMIT}

QueryTies == Perms({"nucleaire", "eolien"})

OutsideQuery ==
    <<lifecycleVars, silverVars, qualityVars, pathVars, pipelineVars, csvVars,
      retryVars, laterVars>>

\* the Gold load the queries read: load_from_silver on a new database
LoadForQuery ==
    /\ ~queryLoaded /\ queryCall = Null
    /\ \E rows \in SeqUpTo(QueryRows, MaxQueryRows) \ {<<>>} :
        \E batch \in {[rows |-> rows, hasLabel |-> TRUE]} :
        \E regions \in Perms(BatchRegions(batch)),
           timestamps \in Perms(BatchTimestamps(batch)) :
        \E r \in {load_from_silver(GoldDb, batch, capacity_data, regions, timestamps)} :
          SetDb(r.db)
    /\ queryLoaded' = TRUE
    /\ UNCHANGED <<queryCall, pages, capacity_data, lastCall, lastResult,
                   replayed, budget, OutsideQuery>>

\* query_production(conn, ..., limit=limit, offset=0)
FirstPage ==
    /\ pages = <<>>
    /\ \E f \in QueryFilters, limit \in QueryLimits, tie \in QueryTies :
        \E q \in {[region_code |-> f.region_code, start_date |-> f.start_date,
                    end_date |-> f.end_date, source_type |-> f.source_type,
                    limit |-> limit]} :
          /\ queryCall' = Some(q)
          /\ pages' = <<query_production(GoldDb, q, 0, tie)>>
    /\ UNCHANGED <<queryLoaded, goldVars, OutsideQuery>>

\* the same call with the next offset, as long as the last page had records
NextPage ==
    /\ queryCall # Null /\ pages # <<>>
    /\ pages[Len(pages)].data # <<>>
    /\ \E tie \in QueryTies :
          pages' = Append(pages,
                     query_production(GoldDb, queryCall[1],
                                      Len(pages) * queryCall[1].limit, tie))
    /\ UNCHANGED <<queryLoaded, queryCall, goldVars, OutsideQuery>>

InitQuery ==
    /\ QueryIdle
    /\ GoldIdle
    /\ RegistryIdle
    /\ SilverIdle
    /\ QualityIdle
    /\ PathIdle
    /\ PipelineIdle
    /\ CsvIdle
    /\ RetryIdle
    /\ LaterIdle

NextQuery == LoadForQuery \/ FirstPage \/ NextPage
SpecQuery == InitQuery /\ [][NextQuery]_vars

(***************************************************************************)
(* CSVIngestion (csv_ingestion.py).  A file's content is what _validate    *)
(* looks at: whether the text is blank, the header fields, the number of   *)
(* data rows; and whether the bytes decode at all.                         *)
(***************************************************************************)
REQUIRED_COLUMNS == {"code_insee_region", "puissance_installee_mw"}

CsvContent(readable, blank, headers, rows) ==
    [readable |-> readable, blank |-> blank, headers |-> headers, rows |-> rows]

CsvContents ==
    { CsvContent(TRUE, TRUE, <<>>, 0),
      CsvContent(TRUE, FALSE, <<"region", "valeur">>, 1),
      CsvContent(TRUE, FALSE, <<"code_insee_region", "puissance_installee_mw">>, 0),
      CsvContent(TRUE, FALSE, <<"code_insee_region", "puissance_installee_mw">>, 1),
      CsvContent(TRUE, FALSE, <<" Code_INSEE_Region", "PUISSANCE_INSTALLEE_MW">>, 1),
      CsvContent(FALSE, FALSE, <<>>, 0) }

\* h.strip().lower() on the header fields of the model
strip_lower(h) ==
    CASE h = " Code_INSEE_Region" -> "code_insee_region"
      [] h = "PUISSANCE_INSTALLEE_MW" -> "puissance_installee_mw"
      [] OTHER -> h

Valid(row_count) == [ok |-> TRUE, row_count |-> row_count, error |-> ""]
CSVValidationError(message) == [ok |-> FALSE, row_count |-> 0, error |-> message]

\* _validate with the data-row test left out
_validate_any_rows(content) ==
    IF content.blank THEN CSVValidationError("File is empty")
    ELSE IF content.headers = <<>> THEN CSVValidationError("No headers found")
    ELSE IF REQUIRED_COLUMNS \ {strip_lower(h) : h \in Range(content.headers)} # {}
    THEN CSVValidationError("Missing required columns")
    ELSE Valid(content.rows)

\* _validate: the number of data rows, or the validation error raised
_validate(content) ==
    IF content.blank THEN CSVValidationError("File is empty")
    ELSE IF content.headers = <<>> THEN CSVValidationError("No headers found")
    ELSE IF REQUIRED_COLUMNS \ {strip_lower(h) : h \in Range(content.headers)} # {}
    THEN CSVValidationError("Missing required columns")
    ELSE IF content.rows = 0
    THEN CSVValidationError("File has headers but no data rows")
    ELSE Valid(content.rows)

CsvStore == [capacity |-> capacityArea, errors |-> errorsArea]

\* ingest_file: the store after the call and the result returned.  A file
\* whose bytes do not decode raises in read_text and ends in the last
\* except clause.
ingest_file(store, file) ==
    IF ~file.content.readable
    THEN [store |-> store,
          result |-> [status |-> "failure", record_count |-> 0, error |-> "Unexpected"]]
    ELSE LET v == _validate(file.content)
         IN  IF v.ok
             THEN [store |-> [store EXCEPT !.capacity = Append(@, file)],
                   result |-> [status |-> "success", record_count |-> v.row_count,
                               error |-> ""]]
             ELSE [store |-> [store EXCEPT !.errors = Append(@, file)],
                   result |-> [status |-> "failure", record_count |-> 0,
                               error |-> v.error]]

RECURSIVE ingest_directory(_, _, _)
\* ingest_directory: ingest_file on every CSV file of the directory, in
\* name order
ingest_directory(store, csv_files, res) ==
    IF csv_files = <<>> THEN [store |-> store, results |-> res]
    ELSE LET one == ingest_file(store, Head(csv_files))
         IN  ingest_directory(one.store, Tail(csv_files), Append(res, one.result))

\* the directories of n files file1.csv, file2.csv, ...
CsvDirectories(n) ==
    UNION {{[i \in 1..k |-> [name |-> i, content |-> cs[i]]] :
               cs \in [1..k -> CsvContents]} : k \in 0..n}

OutsideCsv ==
    <<goldVars, lifecycleVars, silverVars, qualityVars, pathVars, pipelineVars,
      queryVars, retryVars, laterVars>>

IngestFile ==
    /\ csvBudget >= 1
    /\ \E file \in [name : 1..MaxCsvFiles, content : CsvContents] :
        \E r \in {ingest_file(CsvStore, file)} :
          /\ csvCall' = [op |-> "ingest_file", arg |-> <<file>>]
          /\ csvResults' = <<r.result>>
          /\ capacityArea' = r.store.capacity
          /\ errorsArea' = r.store.errors
    /\ csvBudget' = csvBudget - 1
    /\ UNCHANGED <<csvAudit, OutsideCsv>>

IngestDirectory ==
    /\ csvBudget >= 1
    /\ \E csv_files \in CsvDirectories(csvBudget) :
        \E r \in {ingest_directory(CsvStore, csv_files, <<>>)} :
          /\ csvCall' = [op |-> "ingest_directory", arg |-> csv_files]
          /\ csvResults' = r.results
          /\ capacityArea' = r.store.capacity
          /\ errorsArea' = r.store.errors
          /\ csvBudget' = csvBudget - Cost(Len(csv_files))
    /\ UNCHANGED <<csvAudit, OutsideCsv>>

InitCsv ==
    /\ csvAudit \in BOOLEAN
    /\ csvCall = [op |-> "none", arg |-> <<>>]
    /\ csvResults = <<>> /\ capacityArea = <<>> /\ errorsArea = <<>>
    /\ csvBudget = MaxCsvFiles
    /\ GoldIdle
    /\ RegistryIdle
    /\ SilverIdle
    /\ QualityIdle
    /\ PathIdle
    /\ PipelineIdle
    /\ QueryIdle
    /\ RetryIdle
    /\ LaterIdle

NextCsv == IngestFile \/ IngestDirectory
SpecCsv == InitCsv /\ [][NextCsv]_vars

(***************************************************************************)
(* RTEClient._request_with_retry (rte_client.py): one step per             *)
(* session.get and one per time.sleep.                                     *)
(***************************************************************************)
RETRYABLE_STATUS_CODES == {429, 500, 502, 503, 504}
NON_RETRYABLE_STATUS_CODES == {400, 401, 403}

Http(status_code) == [kind |-> "http", status_code |-> status_code]
Timeout == [kind |-> "timeout", status_code |-> 0]
ConnectionError == [kind |-> "connection_error", status_code |-> 0]

\* what session.get may give: a response with a status code, or one of the
\* two exceptions the loop catches
Responses ==
    {Http(c) : c \in {200, 404} \cup RETRYABLE_STATUS_CODES \cup NON_RETRYABLE_STATUS_CODES}
        \cup {Timeout, ConnectionError}

\* the outcomes after which the loop goes round again while attempts remain
Retried(response) ==
    \/ response.kind \in {"timeout", "connection_error"}
    \/ response.kind = "http" /\ response.status_code \in RETRYABLE_STATUS_CODES

RTEClientError(message, status_code) ==
    [kind |-> "raised", message |-> message, status_code |-> status_code]

OutsideRetry ==
    <<goldVars, lifecycleVars, silverVars, qualityVars, pathVars, pipelineVars,
      queryVars, csvVars, laterVars>>

\* the call
StartRequest ==
    /\ retryPc = "idle"
    /\ retryPc' = "request"
    /\ UNCHANGED <<attempt, last_error, responses, slept, retryOutcome, OutsideRetry>>

\* the loop body with `attempt <= MAX_RETRIES` in the place of
\* `attempt < MAX_RETRIES`
RequestOneMore ==
    /\ retryPc = "request"
    /\ \E response \in Responses :
         /\ responses' = Append(responses, response)
         /\ IF response = Http(200)
            THEN /\ retryOutcome' = [kind |-> "returned", message |-> "", status_code |-> Null]
                 /\ retryPc' = "returned"
                 /\ UNCHANGED last_error
            ELSE IF Retried(response)
            THEN /\ last_error' = Some(response)
                 /\ IF attempt <= MAX_RETRIES
                    THEN retryPc' = "sleeping" /\ UNCHANGED retryOutcome
                    ELSE /\ retryOutcome' = RTEClientError("Max retries exhausted", Null)
                         /\ retryPc' = "raised"
            ELSE /\ retryOutcome' =
                      RTEClientError(IF response.status_code \in NON_RETRYABLE_STATUS_CODES
                                     THEN "Non-retryable error" ELSE "Unexpected HTTP",
                                     Some(response.status_code))
                 /\ retryPc' = "raised"
                 /\ UNCHANGED last_error
    /\ UNCHANGED <<attempt, slept, OutsideRetry>>

\* one round of `for attempt in range(MAX_RETRIES + 1)` up to the sleep:
\* session.get, then return, raise, or note last_error; after the last
\* attempt the loop is left and the final raise follows
Request ==
    /\ retryPc = "request"
    /\ \E response \in Responses :
         /\ responses' = Append(responses, response)
         /\ IF response = Http(200)
            THEN /\ retryOutcome' = [kind |-> "returned", message |-> "", status_code |-> Null]
                 /\ retryPc' = "returned"
                 /\ UNCHANGED last_error
            ELSE IF Retried(response)
            THEN /\ last_error' = Some(response)
                 /\ IF attempt < MAX_RETRIES
                    THEN retryPc' = "sleeping" /\ UNCHANGED retryOutcome
                    ELSE /\ retryOutcome' = RTEClientError("Max retries exhausted", Null)
                         /\ retryPc' = "raised"
            ELSE /\ retryOutcome' =
                      RTEClientError(IF response.status_code \in NON_RETRYABLE_STATUS_CODES
                                     THEN "Non-retryable error" ELSE "Unexpected HTTP",
                                     Some(response.status_code))
                 /\ retryPc' = "raised"
                 /\ UNCHANGED last_error
    /\ UNCHANGED <<attempt, slept, OutsideRetry>>

\* time.sleep(BASE_DELAY * 2**attempt + random.uniform(0, 1)); continue.
\* slept records the part of the delay that is not random.
Sleep ==
    /\ retryPc = "sleeping"
    /\ slept' = Append(slept, BASE_DELAY * 2 ^ attempt)
    /\ attempt' = attempt + 1
    /\ retryPc' = "request"
    /\ UNCHANGED <<last_error, responses, retryOutcome, OutsideRetry>>

InitRetry ==
    /\ RetryIdle
    /\ LaterIdle
    /\ GoldIdle
    /\ RegistryIdle
    /\ SilverIdle
    /\ QualityIdle
    /\ PathIdle
    /\ PipelineIdle
    /\ QueryIdle
    /\ CsvIdle

NextRetry == StartRequest \/ Request \/ Sleep
SpecRetry == InitRetry /\ [][NextRetry]_vars

\* session.get ends within REQUEST_TIMEOUT with a response or an exception,
\* and time.sleep returns: a step of the loop that can be taken is taken
SpecRetryFair ==
    /\ SpecRetry
    /\ WF_vars(StartRequest) /\ WF_vars(Request) /\ WF_vars(Sleep)

(***************************************************************************)
(* Fact loads by a FactLoader constructed with each kind of capacity_data: *)
(* none, a positive capacity, zero, a negative one.                        *)
(***************************************************************************)
MaxFactorItems == 1

FactorCapacities ==
    Capacities \cup { [s \in {"eolien"} |-> 0],
                      [s \in {"eolien"} |-> 0 - 3],
                      [s \in {"nucleaire", "eolien"} |-> IF s = "eolien" THEN 4 ELSE 8] }

InitFactor ==
    /\ RegistryIdle
    /\ SilverIdle
    /\ OtherIdle
    /\ DIM_REGION = {} /\ DIM_TIME = {} /\ DIM_SOURCE = {} /\ FACT_ENERGY_FLOW = {}
    /\ seqRegion = 0 /\ seqTime = 0 /\ seqSource = 0 /\ seqFact = 0
    /\ lastCall = [op |-> "none", arg |-> <<>>]
    /\ lastResult = [status |-> "none", count |-> 0]
    /\ replayed = FALSE
    /\ capacity_data \in FactorCapacities
    /\ budget = MaxFactorItems

NextFactor == LoadFromSilver
SpecFactor == InitFactor /\ [][NextFactor]_vars

(***************************************************************************)
(* FactLoader.load_from_silver statement by statement.  DIM_REGION,        *)
(* DIM_TIME, DIM_SOURCE and FACT_ENERGY_FLOW are the committed database;   *)
(* conn is the database as the call's connection sees it, its uncommitted  *)
(* writes included.  A statement may raise; the caller then drops the      *)
(* connection without a commit, which rolls the open transaction back.     *)
(***************************************************************************)
MaxLoadRows == 2
MaxLoadCalls == 2

\* the Silver rows of the loads followed statement by statement
CommitRows ==
    {r \in SilverRows : /\ r.cols = MeasureCols(Some(4), Some(2), Some(5))
                        /\ (r.code_insee_region = "11") = (r.date_heure # BadTimestamp)}

CommitBatches ==
    {b \in SilverBatches(MaxLoadRows) : b.rows # <<>> /\ Range(b.rows) \subseteq CommitRows}

OutsideCommit ==
    <<lastCall, lastResult, replayed, capacity_data, budget, lifecycleVars,
      silverVars, qualityVars, pathVars, pipelineVars, queryVars, csvVars,
      retryVars, mapVars, chunkVars, dirVars>>

CommittedUnchanged ==
    UNCHANGED <<DIM_REGION, DIM_TIME, DIM_SOURCE, FACT_ENERGY_FLOW,
                seqRegion, seqTime, seqSource, seqFact>>

\* the call, on a batch with rows, with a connection that has nothing open
StartLoad ==
    /\ loadPc \in {"idle", "done", "failed"} /\ loadCalls < MaxLoadCalls
    /\ \E batch \in CommitBatches :
         /\ loadBatch' = batch
         /\ loadRegions' \in Perms(BatchRegions(batch))
         /\ loadTimestamps' \in Perms(BatchTimestamps(batch))
    /\ loadPc' = "sources" /\ loadRow' = 1 /\ rows_loaded' = 0
    /\ conn' = GoldDb /\ loadStart' = GoldDb /\ loadFailedAt' = ""
    /\ loadCalls' = loadCalls + 1
    /\ CommittedUnchanged
    /\ UNCHANGED OutsideCommit

\* self.dim.upsert_sources(), which ends with self.conn.commit()
CommitSources ==
    /\ loadPc = "sources"
    /\ \E db \in {upsert_sources(conn, Null)} : conn' = db /\ SetDb(db)
    /\ loadPc' = "regions"
    /\ UNCHANGED <<loadBatch, loadRegions, loadTimestamps, loadRow, rows_loaded,
                   loadStart, loadFailedAt, loadCalls, OutsideCommit>>

\* self.dim.upsert_regions(...) when the batch has both region columns
CommitRegions ==
    /\ loadPc = "regions"
    /\ \E db \in {IF loadBatch.hasLabel THEN upsert_regions(conn, loadRegions) ELSE conn} :
         conn' = db /\ SetDb(db)
    /\ loadPc' = "time"
    /\ UNCHANGED <<loadBatch, loadRegions, loadTimestamps, loadRow, rows_loaded,
                   loadStart, loadFailedAt, loadCalls, OutsideCommit>>

\* self.dim.upsert_time(timestamps)
CommitTime ==
    /\ loadPc = "time"
    /\ \E db \in {upsert_time(conn, loadTimestamps)} : conn' = db /\ SetDb(db)
    /\ loadPc' = "facts"
    /\ UNCHANGED <<loadBatch, loadRegions, loadTimestamps, loadRow, rows_loaded,
                   loadStart, loadFailedAt, loadCalls, OutsideCommit>>

\* the loop body with a commit after each row
ResolveRowCommitting ==
    /\ loadPc = "facts" /\ loadRow <= Len(loadBatch.rows)
    /\ \E st \in {LoadRow([db |-> conn, rows_loaded |-> rows_loaded],
                          loadBatch.rows[loadRow], capacity_data)} :
         /\ conn' = st.db
         /\ rows_loaded' = st.rows_loaded
         /\ SetDb(st.db)
    /\ loadRow' = loadRow + 1
    /\ UNCHANGED <<loadPc, loadBatch, loadRegions, loadTimestamps, loadStart,
                   loadFailedAt, loadCalls, OutsideCommit>>

\* one round of `for row in df.iter_rows(named=True)`: the lookups and the
\* upserts go through the connection, nothing is committed
ResolveRow ==
    /\ loadPc = "facts" /\ loadRow <= Len(loadBatch.rows)
    /\ \E st \in {LoadRow([db |-> conn, rows_loaded |-> rows_loaded],
                          loadBatch.rows[loadRow], capacity_data)} :
         /\ conn' = st.db
         /\ rows_loaded' = st.rows_loaded
    /\ loadRow' = loadRow + 1
    /\ CommittedUnchanged
    /\ UNCHANGED <<loadPc, loadBatch, loadRegions, loadTimestamps, loadStart,
                   loadFailedAt, loadCalls, OutsideCommit>>

\* self.conn.commit() after the loop
CommitFacts ==
    /\ loadPc = "facts" /\ loadRow > Len(loadBatch.rows)
    /\ SetDb(conn)
    /\ loadPc' = "done"
    /\ UNCHANGED <<loadBatch, loadRegions, loadTimestamps, loadRow, conn,
                   rows_loaded, loadStart, loadFailedAt, loadCalls, OutsideCommit>>

\* a statement raises: the exception leaves load_from_silver, the caller's
\* connection goes without commit and what it had open is rolled back
LoadFails ==
    /\ loadPc \in {"sources", "regions", "time", "facts"}
    /\ loadFailedAt' = loadPc
    /\ loadPc' = "failed"
    /\ conn' = GoldDb
    /\ CommittedUnchanged
    /\ UNCHANGED <<loadBatch, loadRegions, loadTimestamps, loadRow, rows_loaded,
                   loadStart, loadCalls, OutsideCommit>>

InitCommit == InitGoldTables /\ capacity_data = [s \in {} |-> 0] /\ budget = 0

NextCommit ==
    \/ StartLoad
    \/ CommitSources
    \/ CommitRegions
    \/ CommitTime
    \/ ResolveRow
    \/ CommitFacts
    \/ LoadFails

SpecCommit == InitCommit /\ [][NextCommit]_vars

(***************************************************************************)
(* ERA5Ingestion._map_to_regions (era5_ingestion.py).  Latitudes and       *)
(* longitudes are in hundredths of a degree.  The code takes the square    *)
(* root of each sum of squares before arg_min; the root keeps the order    *)
(* and the equalities of the sums, which the model compares directly.      *)
(***************************************************************************)
MaxGridSteps == 9

\* REGION_CENTROIDS in its iteration order
REGION_CENTROIDS ==
    << [code |-> "11", lat |-> 4886, lon |-> 235],
       [code |-> "24", lat |-> 4739, lon |-> 169],
       [code |-> "27", lat |-> 4747, lon |-> 0 - 55],
       [code |-> "28", lat |-> 4851, lon |-> 0 - 276],
       [code |-> "32", lat |-> 4830, lon |-> 744],
       [code |-> "44", lat |-> 5063, lon |-> 306],
       [code |-> "52", lat |-> 4912, lon |-> 0 - 37],
       [code |-> "53", lat |-> 4722, lon |-> 0 - 155],
       [code |-> "75", lat |-> 4658, lon |-> 34],
       [code |-> "76", lat |-> 4360, lon |-> 144],
       [code |-> "84", lat |-> 4576, lon |-> 483],
       [code |-> "93", lat |-> 4330, lon |-> 537] >>

\* (latitude - lat)^2 + (longitude - lon)^2 for the centroid at index i
dist(point, i) ==
    (point.latitude - REGION_CENTROIDS[i].lat) * (point.latitude - REGION_CENTROIDS[i].lat)
    + (point.longitude - REGION_CENTROIDS[i].lon) * (point.longitude - REGION_CENTROIDS[i].lon)

\* the last index of the minimum
arg_min_last(list) ==
    CHOOSE i \in DOMAIN list :
        /\ \A j \in DOMAIN list : list[i] <= list[j]
        /\ \A j \in DOMAIN list : list[j] = list[i] => j <= i

\* list.arg_min(): the first index of the minimum
arg_min(list) ==
    CHOOSE i \in DOMAIN list :
        /\ \A j \in DOMAIN list : list[i] <= list[j]
        /\ \A j \in DOMAIN list : list[j] = list[i] => i <= j

\* _map_to_regions on one row: region_codes[nearest_idx], the distances
\* to the centroids being computed once
_map_to_regions(point) ==
    CHOOSE code \in {REGION_CENTROIDS[arg_min(list)].code :
                        list \in {[i \in DOMAIN REGION_CENTROIDS |-> dist(point, i)]}} : TRUE

\* grid points over France, one degree apart, and two points at the
\* same distance from their two nearest centroids
GridPoints ==
    {[latitude |-> 4150 + 100 * i, longitude |-> 150 * j - 500] :
        i \in 0..MaxGridSteps, j \in 0..MaxGridSteps}
    \cup {[latitude |-> 4576, longitude |-> 175],
          [latitude |-> 4453, longitude |-> 510]}

OutsideMap ==
    <<goldVars, lifecycleVars, silverVars, qualityVars, pathVars, pipelineVars,
      queryVars, csvVars, retryVars, commitVars, chunkVars, dirVars>>

MapToRegions ==
    /\ pointRegion = Null
    /\ pointRegion' = Some(_map_to_regions(gridPoint))
    /\ UNCHANGED <<gridPoint, OutsideMap>>

InitMap ==
    /\ gridPoint \in GridPoints /\ pointRegion = Null
    /\ GoldIdle
    /\ RegistryIdle
    /\ SilverIdle
    /\ QualityIdle
    /\ PathIdle
    /\ PipelineIdle
    /\ QueryIdle
    /\ CsvIdle
    /\ RetryIdle
    /\ CommitIdle
    /\ ChunkIdle
    /\ DirIdle

NextMap == MapToRegions
SpecMap == InitMap /\ [][NextMap]_vars

(***************************************************************************)
(* ERA5Ingestion.ingest_parquet and ingest_chunked.  A row of the source   *)
(* file has a valid_time and the coordinates of its grid point; an instant *)
(* is [year, month, day], the day standing for its midnight.               *)
(***************************************************************************)
MaxEra5Rows == 2

FRANCE_LAT_MIN == 4130
FRANCE_LAT_MAX == 5110
FRANCE_LON_MIN == 0 - 520
FRANCE_LON_MAX == 960

Instant(year, month, day) == [year |-> year, month |-> month, day |-> day]

\* a < b on datetimes
Earlier(a, b) ==
    \/ a.year < b.year
    \/ a.year = b.year /\ a.month < b.month
    \/ a.year = b.year /\ a.month = b.month /\ a.day < b.day

\* the filter on the France bounding box
InFrance(row) ==
    /\ row.latitude >= FRANCE_LAT_MIN /\ row.latitude <= FRANCE_LAT_MAX
    /\ row.longitude >= FRANCE_LON_MIN /\ row.longitude <= FRANCE_LON_MAX

\* unique().sort().to_list() and sorted(): the codes in ascending order,
\* which is the order REGION_CENTROIDS lists them in
SortedCodes(codes) ==
    LET idx == {i \in DOMAIN REGION_CENTROIDS : REGION_CENTROIDS[i].code \in codes}
        place(i) == Cardinality({j \in idx : j <= i})
    IN  [k \in 1..Cardinality(idx) |->
            REGION_CENTROIDS[CHOOSE i \in idx : place(i) = k].code]

\* the groups of _write_partitioned: one file per (region, year, month)
PartitionGroups(rows) ==
    {<<_map_to_regions(r), r.valid_time.year, r.valid_time.month>> : r \in Range(rows)}

NoData == [total_rows |-> 0, files_written |-> 0, regions_processed |-> <<>>]

\* ingest_parquet on the rows of the file: filter, map to regions, write
\* one file per (region, year, month), return the summary
ingest_parquet(rows) ==
    LET df == Pick(rows, {i \in DOMAIN rows : InFrance(rows[i])}, 1)
    IN  IF df = <<>> THEN NoData
        ELSE [total_rows |-> Len(df),
              files_written |-> Cardinality(PartitionGroups(df)),
              regions_processed |-> SortedCodes({_map_to_regions(r) : r \in Range(df)})]

\* _process_lazy_frame on the rows of a chunk
_process_lazy_frame(rows) ==
    LET df == Pick(rows, {i \in DOMAIN rows : InFrance(rows[i])}, 1)
    IN  IF df = <<>> THEN NoData
        ELSE [total_rows |-> Len(df),
              files_written |-> Cardinality(PartitionGroups(df)),
              regions_processed |-> SortedCodes({_map_to_regions(r) : r \in Range(df)})]

\* pl.col("valid_time").min() and .max()
MinTime(rows) ==
    (CHOOSE r \in Range(rows) : \A q \in Range(rows) : ~Earlier(q.valid_time, r.valid_time)).valid_time

MaxTime(rows) ==
    (CHOOSE r \in Range(rows) : \A q \in Range(rows) : ~Earlier(r.valid_time, q.valid_time)).valid_time

\* current.replace(month=current.month % 12 + 1,
\*                 year=current.year + (1 if current.month == 12 else 0))
NextMonth(t) ==
    [t EXCEPT !.month = (t.month % 12) + 1,
              !.year = t.year + (IF t.month = 12 THEN 1 ELSE 0)]

\* the window with its upper end included
InWindowClosed(t, from, to) ==
    ~Earlier(t, from) /\ ~Earlier(to, t)

\* (valid_time >= current) & (valid_time < next_month)
InWindow(t, from, to) ==
    ~Earlier(t, from) /\ Earlier(t, to)

\* the rows an ERA5 file may hold: around a turn of the year, at two points
\* in France and one outside the bounding box
Era5FileRows ==
    {[valid_time |-> t, latitude |-> p[1], longitude |-> p[2]] :
        t \in {Instant(2024, 11, 15), Instant(2024, 12, 31), Instant(2025, 1, 1)},
        p \in {<<4850, 250>>, <<4550, 500>>, <<4000, 250>>}}

OutsideChunk ==
    <<goldVars, lifecycleVars, silverVars, qualityVars, pathVars, pipelineVars,
      queryVars, csvVars, retryVars, commitVars, mapVars, dirVars>>

\* an ERA5 export is downloaded: the source file of the two calls
SourceFile ==
    /\ chunkPc = "none"
    /\ era5Input' \in SeqUpTo(Era5FileRows, MaxEra5Rows)
    /\ chunkPc' = "idle"
    /\ UNCHANGED <<wholeResult, current, max_time, total_rows, total_files,
                   all_regions, chunks, chunkedResult, OutsideChunk>>

\* ingest_parquet(source_path)
IngestParquet ==
    /\ chunkPc # "none" /\ wholeResult = Null
    /\ \E result \in {ingest_parquet(era5Input)} : wholeResult' = Some(result)
    /\ UNCHANGED <<era5Input, chunkPc, current, max_time, total_rows, total_files,
                   all_regions, chunks, chunkedResult, OutsideChunk>>

\* ingest_chunked up to the loop: min and max of valid_time are None for a
\* file without rows, and min_time.replace raises AttributeError
StartChunked ==
    /\ chunkPc = "idle"
    /\ IF era5Input = <<>>
       THEN chunkPc' = "raised" /\ UNCHANGED <<current, max_time>>
       ELSE /\ current' = Some([MinTime(era5Input) EXCEPT !.day = 1])
            /\ max_time' = Some(MaxTime(era5Input))
            /\ chunkPc' = "loop"
    /\ UNCHANGED <<era5Input, wholeResult, total_rows, total_files, all_regions,
                   chunks, chunkedResult, OutsideChunk>>

\* one round of `while current <= max_time`
ProcessChunk ==
    /\ chunkPc = "loop" /\ ~Earlier(max_time[1], current[1])
    /\ \E next_month \in {NextMonth(current[1])} :
       \E held \in {{i \in DOMAIN era5Input :
                       InWindow(era5Input[i].valid_time, current[1], next_month)}} :
       \E result \in {_process_lazy_frame(Pick(era5Input, held, 1))} :
           /\ total_rows' = total_rows + result.total_rows
           /\ total_files' = total_files + result.files_written
           /\ all_regions' = all_regions \cup Range(result.regions_processed)
           /\ chunks' = Append(chunks, [from |-> current[1], to |-> next_month,
                                        rows |-> held])
           /\ current' = Some(next_month)
    /\ UNCHANGED <<era5Input, wholeResult, chunkPc, max_time, chunkedResult,
                   OutsideChunk>>

\* the loop is left and the totals are returned
ReturnChunked ==
    /\ chunkPc = "loop" /\ Earlier(max_time[1], current[1])
    /\ chunkedResult' = Some([total_rows |-> total_rows, files_written |-> total_files,
                              regions_processed |-> SortedCodes(all_regions)])
    /\ chunkPc' = "done"
    /\ UNCHANGED <<era5Input, wholeResult, current, max_time, total_rows,
                   total_files, all_regions, chunks, OutsideChunk>>

InitChunked ==
    /\ ChunkIdle
    /\ GoldIdle
    /\ RegistryIdle
    /\ SilverIdle
    /\ QualityIdle
    /\ PathIdle
    /\ PipelineIdle
    /\ QueryIdle
    /\ CsvIdle
    /\ RetryIdle
    /\ CommitIdle
    /\ MapIdle
    /\ DirIdle

NextChunked == SourceFile \/ IngestParquet \/ StartChunked \/ ProcessChunk \/ ReturnChunked
SpecChunked == InitChunked /\ [][NextChunked]_vars

\* the calls run on: a statement that can be executed is executed
SpecChunkedFair == SpecChunked /\ WF_vars(NextChunked)

(***************************************************************************)
(* Two successive transform_rte_to_silver calls into one output directory, *)
(* one per Bronze file, as run_pipeline.py and run_full_pipeline make them.*)
(***************************************************************************)
MaxDirRecs == 2

\* the records a Bronze file of the two calls may hold
DirRecords ==
    { RteRecord(Some("11"), Some(T1), Some("4"), Some(9)),
      RteRecord(Some("11"), Some(T1), Some(" 7 "), Null),
      RteRecord(Some("84"), Some(T1), Some("ND"), Some(9)),
      RteRecord(Some("11"), Some(T2), Null, Some(9)),
      RteRecord(Null, Some(T1), Some("4"), Some(9)) }

\* write_parquet appending to a file that is there
write_parquet_append(dir, files) ==
    {f \in dir : \A g \in files : g.partition # f.partition}
    \cup {[partition |-> g.partition,
           rows |-> (IF \E f \in dir : f.partition = g.partition
                     THEN (CHOOSE f \in dir : f.partition = g.partition).rows
                     ELSE <<>>) \o g.rows] : g \in files}

\* group.write_parquet(part_path) for every group: a file at the path is
\* overwritten, the other files of the directory are not touched
write_parquet(dir, files) ==
    {f \in dir : \A g \in files : g.partition # f.partition} \cup files

OutsideDir ==
    <<goldVars, lifecycleVars, silverVars, qualityVars, pathVars, pipelineVars,
      queryVars, csvVars, retryVars, commitVars, mapVars, chunkVars>>

\* res = transform_rte_to_silver(bf, silver_base) on the next Bronze file
TransformIntoDir ==
    /\ dirPc \in {"first", "second"}
    /\ \E records \in SeqUpTo(DirRecords, MaxDirRecs) :
       \E r \in transform_rte_to_silver(records) :
          /\ dirInput' = records
          /\ dirRows' = r.rows
          /\ silverDir' = write_parquet(silverDir, r.files)
    /\ dirBefore' = silverDir
    /\ dirPc' = IF dirPc = "first" THEN "second" ELSE "done"
    /\ UNCHANGED OutsideDir

InitDir ==
    /\ DirIdle
    /\ GoldIdle
    /\ RegistryIdle
    /\ SilverIdle
    /\ QualityIdle
    /\ PathIdle
    /\ PipelineIdle
    /\ QueryIdle
    /\ CsvIdle
    /\ RetryIdle
    /\ CommitIdle
    /\ MapIdle
    /\ ChunkIdle

NextDir == TransformIntoDir
SpecDir == InitDir /\ [][NextDir]_vars

Init == InitGold
Next == NextGold
Spec == Init /\ [][Next]_vars

(***************************************************************************)
(* Properties of the Gold load (SpecGold) and of the dimension upserts     *)
(* (SpecDim).  A step whose lastCall' names an operation is a call of that *)
(* operation; a step that leaves lastCall as it is repeats the call.       *)
(***************************************************************************)
FactKey(f) == <<f.id_date, f.id_region, f.id_source>>
FactKeys(facts) == {FactKey(f) : f \in facts}

\* the (row, source) pairs of a batch that carry a measure
Contributions(batch) ==
    {<<i, e>> \in (1..Len(batch.rows)) \X (1..Len(SOURCE_COLUMN_MAP)) :
        RowGet(batch.rows[i], SOURCE_COLUMN_MAP[e].col) # Null}

\* whether row's region code and timestamp both have a dimension row in db
Resolves(db, row) ==
    /\ \E r \in db.region : r.code_insee = row.code_insee_region
    /\ \E t \in db.time : t.horodatage = row.date_heure

\* the fact key a contribution of a resolving row addresses
KeyIn(db, batch, c) ==
    << get_time_id(db, batch.rows[c[1]].date_heure)[1],
       get_region_id(db, batch.rows[c[1]].code_insee_region)[1],
       get_source_id(db, SOURCE_COLUMN_MAP[c[2]].source_name)[1] >>

ResolvedContributions(db, batch) ==
    {c \in Contributions(batch) : Resolves(db, batch.rows[c[1]])}

\* C1: calling load_from_silver a second time in succession on the same
\* input leaves the fact table exactly as the first call left it (same rows,
\* same measured value, load factor and temperature per key).
C1_ReloadIsIdempotent ==
    [][(lastCall.op = "load_from_silver" /\ lastCall' = lastCall)
        => FACT_ENERGY_FLOW' = FACT_ENERGY_FLOW]_vars

\* a batch that upserted facts has just been loaded a second time
C1_Witness ==
    /\ replayed /\ lastCall.op = "load_from_silver"
    /\ lastResult.count >= 2
    /\ Len(lastCall.arg.rows) >= 2

\* the temperature a Silver row carries: its temperature_c, or else its
\* temperature_moyenne
CarriedTemperature(row) ==
    IF RowGet(row, "temperature_c") # Null THEN RowGet(row, "temperature_c")
    ELSE RowGet(row, "temperature_moyenne")

\* what a load of the batch lastCall'.arg leaves in the fact table, the
\* temperature of a row being Temperature(row): at most one row per key; a
\* row added only for a key not yet present; the rows of keys the batch does
\* not address as they were; under every key the batch addresses the
\* measured value, load factor and temperature of the last input row
\* addressing it
LoadLeavesLastRow(Temperature(_)) ==
    LET batch == lastCall'.arg
        post == GoldDb'
        res == ResolvedContributions(post, batch)
        touched == {KeyIn(post, batch, c) : c \in res}
        last == {c \in res : \A d \in res :
                    KeyIn(post, batch, d) = KeyIn(post, batch, c) => d[1] <= c[1]}
    IN  /\ \A f, g \in FACT_ENERGY_FLOW' : FactKey(f) = FactKey(g) => f = g
        /\ FactKeys(FACT_ENERGY_FLOW') = FactKeys(FACT_ENERGY_FLOW) \cup touched
        /\ \A f \in FACT_ENERGY_FLOW : FactKey(f) \notin touched => f \in FACT_ENERGY_FLOW'
        /\ \A c \in last : \E f \in FACT_ENERGY_FLOW' :
              LET row == batch.rows[c[1]]
                  v == RowGet(row, SOURCE_COLUMN_MAP[c[2]].col)[1]
              IN  /\ FactKey(f) = KeyIn(post, batch, c)
                  /\ f.valeur_mw = v
                  /\ f.facteur_charge =
                       FacteurCharge(capacity_data, SOURCE_COLUMN_MAP[c[2]].source_name, v)
                  /\ f.temperature_moyenne = Temperature(row)

\* C2: the fact table holds at most one row per (id_date, id_region,
\* id_source); a load adds a row only for a key not yet present, and
\* overwrites the measured value, load factor and temperature of an
\* existing key with those of the last input row that carries the key.
C2_OverwriteByLastRow ==
    [][lastCall'.op = "load_from_silver" => LoadLeavesLastRow(CarriedTemperature)]_vars

\* the same with the temperature as line 133 of fact_loader.py reads it
\* (`temperature_c or temperature_moyenne`): a temperature_c of 0.0 counts
\* as absent
C2_UpsertByNaturalKey ==
    [][lastCall'.op = "load_from_silver" => LoadLeavesLastRow(RowTemperature)]_vars

\* a load has just overwritten an existing fact row with a different value
\* taken from the second of two rows of its batch that share a key
C2_Witness ==
    /\ lastCall.op = "load_from_silver"
    /\ Len(lastCall.arg.rows) = 2
    /\ lastCall.arg.rows[1].code_insee_region = lastCall.arg.rows[2].code_insee_region
    /\ lastCall.arg.rows[1].date_heure = lastCall.arg.rows[2].date_heure
    /\ lastCall.arg.rows[1].cols # lastCall.arg.rows[2].cols
    /\ lastResult.count > Cardinality(FACT_ENERGY_FLOW)

\* C3: every fact row's id_region, id_date and id_source is the surrogate
\* id of an existing row of DIM_REGION, DIM_TIME and DIM_SOURCE.
C3_NoOrphanFacts ==
    \A f \in FACT_ENERGY_FLOW :
        /\ \E r \in DIM_REGION : r.id_region = f.id_region
        /\ \E t \in DIM_TIME : t.id_date = f.id_date
        /\ \E s \in DIM_SOURCE : s.id_source = f.id_source

\* facts exist, and the last load passed a row over for want of a
\* dimension row
C3_Witness ==
    /\ FACT_ENERGY_FLOW # {}
    /\ lastCall.op = "load_from_silver"
    /\ \E i \in 1..Len(lastCall.arg.rows) : ~Resolves(GoldDb, lastCall.arg.rows[i])

LastWith(list, field, key) ==
    list[CHOOSE i \in DOMAIN list :
            /\ list[i][field] = key
            /\ \A j \in DOMAIN list : list[j][field] = key => j <= i]

\* C6: repeating upsert_regions, upsert_sources or upsert_time with the
\* same list leaves the three dimension tables as the first application
\* left them; upsert_regions and upsert_sources leave exactly one row per
\* natural key of the list, bearing the attributes of the list's last entry
\* for it, and leave the other rows alone; upsert_time leaves every row
\* already present unchanged and adds one row per new parseable timestamp.
C6_DimUpsertsIdempotent ==
    [][/\ (lastCall' = lastCall /\ lastCall.op \in {"upsert_regions", "upsert_sources", "upsert_time"})
          => (DIM_REGION' = DIM_REGION /\ DIM_TIME' = DIM_TIME /\ DIM_SOURCE' = DIM_SOURCE)
       /\ lastCall'.op = "upsert_regions" =>
            LET list == lastCall'.arg
                keys == {list[i].code_insee : i \in DOMAIN list}
            IN  /\ \A r \in DIM_REGION : r.code_insee \notin keys => r \in DIM_REGION'
                /\ {r.code_insee : r \in DIM_REGION'} = {r.code_insee : r \in DIM_REGION} \cup keys
                /\ \A k \in keys :
                     /\ Cardinality({r \in DIM_REGION' : r.code_insee = k}) = 1
                     /\ \A r \in DIM_REGION' : r.code_insee = k =>
                          LET e == LastWith(list, "code_insee", k)
                          IN  /\ r.nom_region = e.nom_region
                              /\ r.population = e.population
                              /\ r.superficie_km2 = e.superficie_km2
       /\ lastCall'.op = "upsert_sources" =>
            LET list == IF lastCall'.arg = Null THEN DefaultSources ELSE lastCall'.arg[1]
                keys == {list[i].source_name : i \in DOMAIN list}
            IN  /\ \A x \in DIM_SOURCE : x.source_name \notin keys => x \in DIM_SOURCE'
                /\ {x.source_name : x \in DIM_SOURCE'} = {x.source_name : x \in DIM_SOURCE} \cup keys
                /\ \A k \in keys :
                     /\ Cardinality({x \in DIM_SOURCE' : x.source_name = k}) = 1
                     /\ \A x \in DIM_SOURCE' : x.source_name = k =>
                          x.is_green = LastWith(list, "source_name", k).is_green
       /\ lastCall'.op = "upsert_time" =>
            LET list == lastCall'.arg
                keys == {list[i] : i \in DOMAIN list} \cap GoodTimestamps
            IN  /\ DIM_TIME \subseteq DIM_TIME'
                /\ {t.horodatage : t \in DIM_TIME'} = {t.horodatage : t \in DIM_TIME} \cup keys
                /\ \A k \in keys : Cardinality({t \in DIM_TIME' : t.horodatage = k}) = 1
      ]_vars

\* an upsert_regions call naming a region twice has just been repeated on
\* tables that hold regions, timestamps and sources
C6_Witness ==
    /\ replayed /\ lastCall.op = "upsert_regions"
    /\ Len(lastCall.arg) = 2
    /\ lastCall.arg[1].code_insee = lastCall.arg[2].code_insee
    /\ lastCall.arg[1] # lastCall.arg[2]
    /\ DIM_TIME # {}

(***************************************************************************)
(* Properties of the region registry (SpecLifecycle).  A step whose        *)
(* lcCall' names check_staleness is one call of it with now = lcCall'.arg; *)
(* a step whose lcCall' names discover_regions is one call of it on the    *)
(* Bronze records lcCall'.arg at the instant clock.                        *)
(***************************************************************************)
RowOf(rows, code) == CHOOSE r \in rows : r.code_insee_region = code
CodesOf(rows) == {r.code_insee_region : r \in rows}
NoDuplicates(list) == \A i, j \in DOMAIN list : list[i] = list[j] => i = j

\* The statement of C7 without the inactive threshold in its last clause:
\* check_staleness(now) turns every active region whose
\* last_seen_at is older than now - staleness_hours, and not older than
\* now - inactive_hours, into a stale one; stale_regions lists exactly those
\* codes, once each, stale_count is its length; an active region seen at or
\* after now - staleness_hours keeps its row as it is.
C7_AsStated ==
    [][lcCall'.op = "check_staleness" =>
        LET now == lcCall'.arg
            expected == {r \in AssetRegions :
                           /\ r.status = "active"
                           /\ r.last_seen_at < now - staleness_hours
                           /\ ~(r.last_seen_at < now - inactive_hours)}
        IN  /\ Range(lifecycle'.stale_regions) = CodesOf(expected)
            /\ NoDuplicates(lifecycle'.stale_regions)
            /\ lifecycle'.stale_count = Len(lifecycle'.stale_regions)
            /\ \A r \in expected : [r EXCEPT !.status = "stale"] \in AssetRegions'
            /\ \A r \in AssetRegions :
                 (r.status = "active" /\ ~(r.last_seen_at < now - staleness_hours))
                    => r \in AssetRegions'
      ]_vars

\* C7: check_staleness(now) turns every active region whose last_seen_at is
\* older than now - staleness_hours, and not older than now -
\* inactive_hours, into a stale one; stale_regions lists exactly those
\* codes, once each, stale_count is its length; an active region seen at or
\* after now - staleness_hours and at or after now - inactive_hours keeps
\* its row as it is.  (With INACTIVE_THRESHOLD_HOURS set below
\* STALENESS_THRESHOLD_HOURS a region seen within the staleness threshold
\* is made inactive, which is why the statement above does not hold.)
C7_StaleTransition ==
    [][lcCall'.op = "check_staleness" =>
        LET now == lcCall'.arg
            expected == {r \in AssetRegions :
                           /\ r.status = "active"
                           /\ r.last_seen_at < now - staleness_hours
                           /\ ~(r.last_seen_at < now - inactive_hours)}
        IN  /\ Range(lifecycle'.stale_regions) = CodesOf(expected)
            /\ NoDuplicates(lifecycle'.stale_regions)
            /\ lifecycle'.stale_count = Len(lifecycle'.stale_regions)
            /\ \A r \in expected : [r EXCEPT !.status = "stale"] \in AssetRegions'
            /\ \A r \in AssetRegions :
                 (/\ r.status = "active"
                  /\ ~(r.last_seen_at < now - staleness_hours)
                  /\ ~(r.last_seen_at < now - inactive_hours))
                    => r \in AssetRegions'
      ]_vars

\* a check has just made one region stale and left another, seen exactly
\* staleness_hours before now, active
C7_Witness ==
    /\ lcCall.op = "check_staleness"
    /\ staleness_hours < inactive_hours
    /\ lifecycle.stale_count = 1
    /\ \E r \in AssetRegions : r.status = "stale"
    /\ \E r \in AssetRegions :
          /\ r.status = "active"
          /\ r.last_seen_at = lcCall.arg - staleness_hours

C9_RegionsNeverDeleted ==
    [][/\ \A r \in AssetRegions : \E q \in AssetRegions' :
             /\ q.region_id = r.region_id
             /\ q.code_insee_region = r.code_insee_region
             /\ q.libelle_region = r.libelle_region
             /\ q.first_seen_at = r.first_seen_at
       /\ \A q \in AssetRegions' : q.status \in {"active", "stale", "inactive"}
      ]_vars

\* two regions are registered, one inactive and one stale
C9_Witness ==
    /\ \E r \in AssetRegions : r.status = "inactive"
    /\ \E r \in AssetRegions : r.status = "stale"

\* C10: discover_regions on records naming a code already registered sets
\* that region's status to active and its last_seen_at to the instant of
\* the call, whatever its status was, leaves the rest of its row alone and
\* counts it in updated_count; the codes not yet registered are counted in
\* new_count and get an active row first and last seen at that instant.
C10_RediscoveryReactivates ==
    [][lcCall'.op = "discover_regions" =>
        LET seen == {strip(rec.code_insee_region) : rec \in Range(lcCall'.arg)} \ {""}
            known == seen \cap CodesOf(AssetRegions)
        IN  /\ discovery'.updated_count = Cardinality(known)
            /\ discovery'.new_count = Cardinality(seen \ known)
            /\ Range(discovery'.regions_seen) = seen
            /\ \A code \in known :
                 [RowOf(AssetRegions, code) EXCEPT !.status = "active",
                                                   !.last_seen_at = clock] \in AssetRegions'
            /\ \A code \in seen \ known : \E q \in AssetRegions' :
                 /\ q.code_insee_region = code
                 /\ q.status = "active"
                 /\ q.first_seen_at = clock /\ q.last_seen_at = clock
            /\ \A r \in AssetRegions : r.code_insee_region \notin seen => r \in AssetRegions'
            /\ CodesOf(AssetRegions') = CodesOf(AssetRegions) \cup seen
      ]_vars

\* the last check made a region inactive, the clock advanced, and a
\* discovery that observed the region again has it active
C10_Witness ==
    /\ lcCall.op = "discover_regions"
    /\ discovery.updated_count = 1 /\ discovery.new_count = 0
    /\ lifecycle.inactive_count = 1
    /\ \E r \in AssetRegions :
          /\ r.code_insee_region \in Range(lifecycle.inactive_regions)
          /\ r.code_insee_region \in Range(discovery.regions_seen)
          /\ r.status = "active"
          /\ r.first_seen_at < r.last_seen_at

\* C11: discover_regions treats each distinct non-empty (stripped) region
\* code of the batch once, however many records carry it: a code not yet
\* registered gets exactly one new row, active, first and last seen at the
\* instant of the call; new_count + updated_count is the number of distinct
\* codes; regions_seen lists each code exactly once; a batch with no code
\* changes no row and returns zero counts and an empty regions_seen.
C11_DistinctCodesOnce ==
    [][lcCall'.op = "discover_regions" =>
        LET seen == {strip(rec.code_insee_region) : rec \in Range(lcCall'.arg)} \ {""}
            fresh == seen \ CodesOf(AssetRegions)
        IN  /\ discovery'.new_count + discovery'.updated_count = Cardinality(seen)
            /\ discovery'.new_count = Cardinality(fresh)
            /\ Range(discovery'.regions_seen) = seen
            /\ NoDuplicates(discovery'.regions_seen)
            /\ Cardinality(AssetRegions') = Cardinality(AssetRegions) + Cardinality(fresh)
            /\ \A code \in fresh :
                 /\ Cardinality({q \in AssetRegions' : q.code_insee_region = code}) = 1
                 /\ \A q \in AssetRegions' : q.code_insee_region = code =>
                      /\ q.status = "active"
                      /\ q.first_seen_at = clock /\ q.last_seen_at = clock
            /\ seen = {} => (AssetRegions' = AssetRegions /\ discovery' = NoDiscovery)
      ]_vars

\* a batch of three records naming two codes, one of them twice, has just
\* registered one region and updated the other
C11_Witness ==
    /\ lcCall.op = "discover_regions"
    /\ Len(lcCall.arg) = 3
    /\ Len(discovery.regions_seen) = 2
    /\ discovery.new_count = 1 /\ discovery.updated_count = 1

(***************************************************************************)
(* Properties of apply_quality_rules (SpecQuality).                        *)
(***************************************************************************)
\* the columns of the frame that the table gives the strategy, whatever the
\* place of the rule in the table
ColumnsUnder(strategy) ==
    {r.col : r \in {q \in Range(qualityRules) : q.strategy = strategy}}
        \cap Columns(qualityInput)

\* the rows of the input that are null in no DROP column, in input order
Survivors ==
    Pick(qualityInput,
         {i \in DOMAIN qualityInput :
             \A c \in ColumnsUnder("drop") : qualityInput[i][c] # Null}, 1)

\* C12: whatever the order of the rule table, apply_quality_rules returns
\* the rows that are null in no DROP column present, zero-filled and
\* forward-filled among themselves only (a dropped row supplies no value),
\* counts in values_filled and values_flagged only nulls of those rows, and
\* reports output_rows = input_rows - rows_dropped.
C12_DropThenFillThenFlag ==
    qualityDone =>
        /\ Len(qualityOutput) = Len(Survivors)
        /\ \A i \in DOMAIN Survivors : \A c \in Columns(qualityInput) :
              qualityOutput[i][c] =
                 IF c \in ColumnsUnder("fill_zero") /\ Survivors[i][c] = Null
                 THEN Some(0)
                 ELSE IF c \in ColumnsUnder("forward_fill")
                      THEN forward_fill(Survivors, c, i)
                      ELSE Survivors[i][c]
        /\ qualityMetrics.input_rows = Len(qualityInput)
        /\ qualityMetrics.rows_dropped = Len(qualityInput) - Len(Survivors)
        /\ qualityMetrics.output_rows = Len(qualityOutput)
        /\ qualityMetrics.output_rows =
              qualityMetrics.input_rows - qualityMetrics.rows_dropped
        /\ qualityMetrics.values_filled =
              Cardinality(NullCells(Survivors,
                   ColumnsUnder("fill_zero") \cup ColumnsUnder("forward_fill")))
        /\ qualityMetrics.values_flagged =
              Cardinality(NullCells(Survivors, ColumnsUnder("flag")))

\* a table that starts with the FLAG rule, a first row without region code
\* that carries a temperature and a consumption null, a second row that has
\* none: the one row returned has no temperature and nothing is flagged
C12_Witness ==
    /\ qualityDone
    /\ qualityRules[1].strategy = "flag"
    /\ DropRegion \in Range(qualityRules)
    /\ Len(qualityInput) = 2
    /\ qualityInput[1].code_insee_region = Null
    /\ qualityInput[1].temperature_c # Null
    /\ qualityInput[1].consommation_mw = Null
    /\ qualityInput[2].code_insee_region # Null
    /\ qualityInput[2].temperature_c = Null
    /\ qualityInput[2].consommation_mw # Null
    /\ Len(qualityOutput) = 1
    /\ qualityOutput[1].temperature_c = Null
    /\ qualityMetrics.values_flagged = 0

\* C14: a transformer or load_from_silver given a path that is neither a
\* file nor a directory ends with a not-found error: it returns no status,
\* writes no Silver file and leaves the Gold tables as they were.
C14_MissingPathRaises ==
    [][(pathKind = "missing" /\ pathDone') =>
          /\ pathOutcome' = Raised("FileNotFoundError")
          /\ pathWritten' = {}
          /\ GoldDb' = GoldDb
      ]_vars

\* a call on a missing path has ended with the error
C14_Witness ==
    /\ pathDone /\ pathKind = "missing"
    /\ pathOp = "load_from_silver"
    /\ pathOutcome.kind = "raised"

\* C15: a transformer given an existing path that yields no record, a
\* directory without matching files or files holding no records, returns
\* status empty, raises nothing and writes no file.
C15_NoRecordsIsEmpty ==
    (pathDone /\ pathOp \in Transformers /\ pathKind # "missing"
        /\ Flatten(pathFiles) = <<>>) =>
        /\ pathOutcome = Returned("empty")
        /\ pathWritten = {}

\* what the code does: every transformer returns empty for a directory
\* without matching files; telemetry and maintenance also for files that
\* hold no records
C15_EmptyWhereChecked ==
    (pathDone /\ pathOp \in Transformers /\ pathKind # "missing"
        /\ Flatten(pathFiles) = <<>>
        /\ (pathFiles = <<>> \/ pathOp \in {"telemetry", "maintenance"})) =>
        /\ pathOutcome = Returned("empty")
        /\ pathWritten = {}

\* the capacity transformer, given a file without records, has returned
\* success and written its file
C15_Witness ==
    /\ pathDone /\ pathOp = "capacity" /\ pathKind = "file"
    /\ Flatten(pathFiles) = <<>>
    /\ pathOutcome = Returned("success")
    /\ pathWritten # {}

\* C16: run_full_pipeline enters the stages in the order Bronze, Silver,
\* Gold and returns at the first one that fails: failure / bronze after a
\* Bronze failure, with neither Silver nor Gold entered; partial / silver
\* after an exception in Silver, Gold not entered; partial / gold after an
\* exception in Gold; success only when the three stages ended without
\* failing, and then without failed_stage.  A returned result has one of
\* the three statuses, and no step takes anything away from a store.
C16_StagesInOrderStopAtFailure ==
    [][/\ \E n \in 0..3 : stagesRun' = SubSeq(<<"bronze", "silver", "gold">>, 1, n)
       /\ bronzeStore' >= bronzeStore
       /\ silverStore' >= silverStore
       /\ goldStore' >= goldStore
       /\ pipePc' = "returned" =>
            /\ results'.status \in {Some("success"), Some("partial"), Some("failure")}
            /\ results'.stages.bronze = Some("failure") <=>
                  results'.status = Some("failure")
            /\ results'.status = Some("failure") =>
                  /\ results'.failed_stage = Some("bronze")
                  /\ stagesRun' = <<"bronze">>
                  /\ results'.stages.silver = Null /\ results'.stages.gold = Null
            /\ results'.stages.silver = Some("failure") =>
                  /\ results'.status = Some("partial")
                  /\ results'.failed_stage = Some("silver")
                  /\ stagesRun' = <<"bronze", "silver">>
                  /\ results'.stages.gold = Null
            /\ results'.stages.gold = Some("failure") =>
                  /\ results'.status = Some("partial")
                  /\ results'.failed_stage = Some("gold")
            /\ results'.status = Some("partial") =>
                  \/ results'.stages.silver = Some("failure")
                  \/ results'.stages.gold = Some("failure")
            /\ results'.status = Some("success") =>
                  /\ results'.failed_stage = Null
                  /\ stagesRun' = <<"bronze", "silver", "gold">>
                  /\ \A st \in {"bronze", "silver", "gold"} :
                        results'.stages[st] \notin {Null, Some("failure")}
      ]_vars

\* a second run has stopped in Silver; what the first run wrote to the
\* three stores is still there
C16_Witness ==
    /\ pipePc = "returned" /\ pipeRuns = 2
    /\ results.status = Some("partial")
    /\ results.failed_stage = Some("silver")
    /\ bronzeStore = 2 /\ silverStore = 1 /\ goldStore = 1

(***************************************************************************)
(* Properties of query_production (SpecQuery).                             *)
(***************************************************************************)
PairOf(rec) == <<rec.code_insee, rec.timestamp>>
PairsOn(page) == {PairOf(page.data[i]) : i \in DOMAIN page.data}

\* the (region code, timestamp) pairs that have fact rows for the code
PairsOfRegion(code) ==
    {<<r.code_insee, t.horodatage>> :
        <<f, r, t>> \in {x \in FACT_ENERGY_FLOW \X DIM_REGION \X DIM_TIME :
                            /\ x[1].id_region = x[2].id_region
                            /\ x[1].id_date = x[3].id_date
                            /\ x[2].code_insee = code}}

\* C17: a query_production call with region_code = c returns only records
\* of code c, at most one per (region, timestamp) pair, each for a pair
\* that has fact rows for c, and with no other filter and the default limit
\* every such pair; it returns an empty list and total_records = 0 when no
\* region has code c; the call leaves the Gold tables as they were.
C17_RegionFilter ==
    [][(pages' # pages /\ pages' # <<>>) =>
        LET q == queryCall'[1]
            page == pages'[Len(pages')]
        IN  /\ GoldDb' = GoldDb
            /\ page.total_records = Len(page.data)
            /\ Given(q.region_code) =>
                 LET c == q.region_code[1]
                 IN  /\ \A i \in DOMAIN page.data :
                          /\ page.data[i].code_insee = c
                          /\ PairOf(page.data[i]) \in PairsOfRegion(c)
                          /\ \A j \in DOMAIN page.data :
                               PairOf(page.data[j]) = PairOf(page.data[i]) => j = i
                     /\ (/\ q.start_date = Null /\ q.end_date = Null
                         /\ q.source_type = Null
                         /\ q.limit = DEFAULT_LIMIT /\ page.offset = 0) =>
                           PairsOn(page) = PairsOfRegion(c)
                     /\ (\A r \in DIM_REGION : r.code_insee # c) =>
                           (page.data = <<>> /\ page.total_records = 0)
      ]_vars

\* with facts of both regions loaded, the query for region 11 has returned
\* its two records
C17_Witness ==
    /\ Len(pages) = 1
    /\ queryCall # Null /\ queryCall[1].region_code = Some("11")
    /\ PairsOfRegion("84") # {}
    /\ Len(pages[1].data) = 2

\* the rows of the Gold tables that pass the filters of the calls
Matching == {row \in JoinedRows(GoldDb) : Where(row, queryCall[1])}

\* the session is over: the last page received is empty
Paged == pages # <<>> /\ pages[Len(pages)].data = <<>>

\* C18: for a fixed Gold state and fixed filters, every page holds at most
\* limit (region, timestamp) records, the pages of the offsets 0, limit,
\* 2*limit, ... are pairwise disjoint and together hold every matching
\* (region, timestamp) record, and each record carries in sources every
\* source value stored for its pair.
C18_PagesPartitionRecords ==
    Paged =>
        /\ \A i \in DOMAIN pages : Len(pages[i].data) <= queryCall[1].limit
        /\ \A i, j \in DOMAIN pages : i < j => PairsOn(pages[i]) \cap PairsOn(pages[j]) = {}
        /\ UNION {PairsOn(pages[i]) : i \in DOMAIN pages}
              = {<<row.code_insee, row.horodatage>> : row \in Matching}
        /\ \A i \in DOMAIN pages : \A k \in DOMAIN pages[i].data :
              pages[i].data[k].sources =
                 {<<row.source_name, row.valeur_mw>> :
                     row \in {m \in Matching :
                                <<m.code_insee, m.horodatage>> = PairOf(pages[i].data[k])}}

\* what the code does: limit and offset count fact rows, one per source, so
\* a page holds at most limit records and the pages together every matching
\* pair, each record with some of the stored values of its pair
C18_PagesCoverPairs ==
    Paged =>
        /\ \A i \in DOMAIN pages : Len(pages[i].data) <= queryCall[1].limit
        /\ UNION {PairsOn(pages[i]) : i \in DOMAIN pages}
              = {<<row.code_insee, row.horodatage>> : row \in Matching}
        /\ \A i \in DOMAIN pages : \A k \in DOMAIN pages[i].data :
              /\ pages[i].data[k].sources # {}
              /\ pages[i].data[k].sources \subseteq
                    {<<row.source_name, row.valeur_mw>> :
                        row \in {m \in Matching :
                                   <<m.code_insee, m.horodatage>> = PairOf(pages[i].data[k])}}

\* with limit 1, the first two pages hold the same (region, timestamp)
\* record, each with one of its two sources
C18_Witness ==
    /\ Paged /\ queryCall[1].limit = 1 /\ Len(pages) >= 3
    /\ PairsOn(pages[1]) = PairsOn(pages[2])
    /\ pages[1].data[1].sources # pages[2].data[1].sources

(***************************************************************************)
(* Properties of CSVIngestion (SpecCsv).                                   *)
(***************************************************************************)
\* the file decodes and is empty, has no headers, lacks a required column,
\* or has headers and no data row
FailsValidation(content) ==
    /\ content.readable
    /\ \/ content.blank
       \/ content.headers = <<>>
       \/ \E col \in REQUIRED_COLUMNS :
             \A h \in Range(content.headers) : strip_lower(h) # col
       \/ content.rows = 0

\* the files of a list that fail validation, in list order
RECURSIVE Failing(_)
Failing(files) ==
    IF files = <<>> THEN <<>>
    ELSE (IF FailsValidation(Head(files).content) THEN <<Head(files)>> ELSE <<>>)
            \o Failing(Tail(files))

\* C19: ingest_file on a file that fails validation writes the file to the
\* errors area, writes nothing to the Bronze capacity area and returns a
\* failure result; ingest_directory goes on with the remaining files and
\* returns exactly one result per CSV file of the directory.
C19_InvalidFilesGoToErrors ==
    [][csvCall'.op \in {"ingest_file", "ingest_directory"} =>
        LET files == csvCall'.arg
        IN  /\ Len(csvResults') = Len(files)
            /\ errorsArea' = errorsArea \o Failing(files)
            /\ \A i \in DOMAIN files :
                 FailsValidation(files[i].content) =>
                    /\ csvResults'[i].status = "failure"
                    /\ files[i] \notin Range(capacityArea')
                    /\ files[i] \in Range(errorsArea')
            /\ (\A i \in DOMAIN files : FailsValidation(files[i].content)) =>
                  capacityArea' = capacityArea
            /\ \A i \in DOMAIN files :
                 (files[i].content.readable /\ ~FailsValidation(files[i].content)) =>
                    /\ csvResults'[i].status = "success"
                    /\ files[i] \in Range(capacityArea')
      ]_vars

\* a directory whose first file has headers and no data row and whose
\* second file is well-formed: one failure, then one success
C19_Witness ==
    /\ csvCall.op = "ingest_directory" /\ Len(csvCall.arg) = 2
    /\ csvCall.arg[1].content.rows = 0 /\ ~csvCall.arg[1].content.blank
    /\ csvCall.arg[1].content.readable
    /\ csvResults[1].status = "failure" /\ csvResults[2].status = "success"
    /\ Len(errorsArea) = 1 /\ Len(capacityArea) = 1

(***************************************************************************)
(* Properties of RTEClient._request_with_retry (SpecRetryFair).            *)
(***************************************************************************)
Last(seq) == seq[Len(seq)]
AllButLast(seq) == SubSeq(seq, 1, Len(seq) - 1)

\* C20: _request_with_retry makes at most MAX_RETRIES + 1 = 4 attempts and
\* always terminates: it returns on the first HTTP 200; after a retryable
\* status, a timeout or a connection error it sleeps and tries again while
\* attempts remain; on 400, 401 or 403 it raises at once; once all attempts
\* have failed it raises that the maximum number of retries is exhausted.
C20_BoundedRetryTerminates ==
    /\ [](/\ Len(responses) <= MAX_RETRIES + 1
          /\ MAX_RETRIES + 1 = 4
          /\ \A i \in 1..(Len(responses) - 1) : Retried(responses[i])
          /\ Len(slept) = attempt
          /\ retryPc = "returned" <=> retryOutcome.kind = "returned"
          /\ retryPc = "raised" <=> retryOutcome.kind = "raised"
          /\ (responses # <<>> /\ Last(responses) = Http(200)) =>
                retryOutcome.kind = "returned"
          /\ retryOutcome.kind = "returned" => Last(responses) = Http(200)
          /\ (responses # <<>> /\ Retried(Last(responses))) =>
                IF Len(responses) <= MAX_RETRIES
                THEN /\ retryOutcome.kind = "none"
                     /\ retryPc \in {"sleeping", "request"}
                ELSE retryOutcome = RTEClientError("Max retries exhausted", Null)
          /\ retryOutcome.message = "Max retries exhausted" =>
                (Len(responses) = MAX_RETRIES + 1 /\ Retried(Last(responses)))
          /\ (/\ responses # <<>> /\ Last(responses).kind = "http"
              /\ Last(responses).status_code \in NON_RETRYABLE_STATUS_CODES) =>
                retryOutcome = RTEClientError("Non-retryable error",
                                              Some(Last(responses).status_code)))
    /\ [][/\ retryPc \in {"returned", "raised"} => UNCHANGED retryVars
          /\ retryPc = "sleeping" =>
                (retryPc' = "request" /\ attempt' = attempt + 1
                    /\ responses' = responses)]_vars
    /\ <>(retryPc \in {"returned", "raised"})

\* three failed attempts of different kinds, each followed by a sleep, then
\* a fourth failure: the retries are exhausted
C20_Witness ==
    /\ retryPc = "raised"
    /\ retryOutcome.message = "Max retries exhausted"
    /\ Len(responses) = 4 /\ slept = <<2, 4, 8>>
    /\ responses[1] = Http(503) /\ responses[2] = Timeout
    /\ responses[3] = ConnectionError /\ responses[4] = Http(429)

\* C13: for every FLAG column present in the batch, the output keeps the
\* column's nulls and every output row has the companion column
\* <col>_is_null, true exactly where the column is null; the output columns
\* are therefore the input columns plus one companion per FLAG column
\* present, whatever the data values.
C13_FlagColumnAlways ==
    (qualityDone /\ qualityOutput # <<>>) =>
        /\ \A c \in ColumnsUnder("flag") : \A i \in DOMAIN qualityOutput :
              /\ qualityOutput[i][c] = Survivors[i][c]
              /\ FlagColumn(c) \in DOMAIN qualityOutput[i]
              /\ qualityOutput[i][FlagColumn(c)] = Some(qualityOutput[i][c] = Null)
        /\ Columns(qualityOutput) =
              Columns(qualityInput) \cup {FlagColumn(c) : c \in ColumnsUnder("flag")}

\* what the code does: the column's nulls are kept; the companion column is
\* there, and right, exactly when some surviving row is null in the column
C13_FlagColumnWhenNullSeen ==
    (qualityDone /\ qualityOutput # <<>>) =>
        \A c \in ColumnsUnder("flag") : \A i \in DOMAIN qualityOutput :
            /\ qualityOutput[i][c] = Survivors[i][c]
            /\ (FlagColumn(c) \in DOMAIN qualityOutput[i])
                  <=> (NullCells(Survivors, {c}) # {})
            /\ FlagColumn(c) \in DOMAIN qualityOutput[i] =>
                  qualityOutput[i][FlagColumn(c)] = Some(qualityOutput[i][c] = Null)

\* a batch whose FLAG column has no null comes back without the companion
\* column
C13_Witness ==
    /\ qualityDone
    /\ FlagConsumption \in Range(qualityRules)
    /\ Len(qualityOutput) = 2
    /\ \A i \in DOMAIN qualityOutput : qualityOutput[i].consommation_mw # Null
    /\ "consommation_mw_is_null" \notin Columns(qualityOutput)

(***************************************************************************)
(* Properties of the Silver transformers (SpecSilver).                     *)
(***************************************************************************)
NaturalKey(source) ==
    CASE source = "telemetry" -> {"code_insee_region", "date_heure"}
      [] source = "maintenance" -> {"event_id"}
      [] source = "capacity" -> {"code_insee_region", "filiere"}
      [] source = "climate" -> {"region_code", "valid_time"}

\* the records as the transformer reads them, one row per record
InputFrame(source, records) ==
    CASE source = "telemetry" -> RteFrame(records)
      [] source = "maintenance" -> MaintenanceFrame(records)
      [] OTHER -> records

SameKey(source, a, b) == \A c \in NaturalKey(source) : a[c] = b[c]

\* the indices of the records no later record of the same key supersedes
LastOfKey(source, records) ==
    LET df == InputFrame(source, records)
    IN  {i \in DOMAIN df : \A j \in DOMAIN df : SameKey(source, df[j], df[i]) => j <= i}

\* C5: a transformer's output holds exactly one row for every natural key
\* of its input (a key with no null component); the attributes the last
\* record of that key carries are those of the row, and the row is the one
\* the transformer yields when the superseded records are not in the input
\* at all (last write wins, nothing of an earlier duplicate is merged in).
C5_LastWriteWins ==
    (silverDone /\ silverSummary.status = "success") =>
        LET df == InputFrame(silverSource, bronzeInput)
            last == LastOfKey(silverSource, bronzeInput)
            alone == Transform(silverSource, Pick(bronzeInput, last, 1))
        IN  \A i \in last :
              (\A c \in NaturalKey(silverSource) : df[i][c] # Null) =>
                LET out == {o \in DOMAIN silverRows : SameKey(silverSource, silverRows[o], df[i])}
                IN  /\ Cardinality(out) = 1
                    /\ \A o \in out :
                         /\ \A c \in DOMAIN df[i] :
                              df[i][c] # Null => silverRows[o][c] = df[i][c]
                         /\ \E r \in alone : \E k \in DOMAIN r.rows :
                              r.rows[k] = silverRows[o]

\* the three transformers other than the climate one do as C5 says
C5_ExceptClimate == silverSource # "climate" => C5_LastWriteWins

\* a transformer has written one row for a key that two records with
\* different attributes bore, and a row for another key
C5_Witness ==
    /\ silverDone /\ silverSummary.status = "success"
    /\ silverSource # "climate"
    /\ Len(bronzeInput) = 3 /\ Len(silverRows) = 2
    /\ LastOfKey(silverSource, bronzeInput) = {2, 3}
    /\ bronzeInput[1] # bronzeInput[2]
    /\ SameKey(silverSource, InputFrame(silverSource, bronzeInput)[1],
               InputFrame(silverSource, bronzeInput)[2])

\* the quality rules each transformer passes to apply_quality_rules
QualityRulesOf(source) ==
    CASE source = "telemetry" -> RTE_QUALITY_RULES
      [] source = "capacity" -> CAPACITY_QUALITY_RULES
      [] source = "climate" -> ERA5_QUALITY_RULES
      [] OTHER -> <<>>

\* the runs of a transformer that deduplicates on the natural key and then
\* applies the quality rules to the deduplicated batch
DedupThenQuality(source, records) ==
    { apply_quality_rules(deduped, QualityRulesOf(source))
        : deduped \in unique(InputFrame(source, records), NaturalKey(source)) }

\* C21: in every Silver transformer that applies quality rules, the rows
\* written and the quality metrics reported are those of the quality rules
\* applied to the batch already deduplicated on the natural key (so no
\* discarded duplicate is counted, filled, or used as a forward-fill value).
C21_DedupBeforeQuality ==
    (silverDone /\ silverSummary.status = "success" /\ silverSource # "maintenance") =>
        \E q \in DedupThenQuality(silverSource, bronzeInput) :
            /\ silverRows = q.df
            /\ silverSummary.quality = Some(q.metrics)

\* the telemetry transformer is the one that does as C21 says
C21_TelemetryDedupFirst == silverSource = "telemetry" => C21_DedupBeforeQuality

\* the capacity transformer has counted a zero-fill in a record that its
\* deduplication then discarded
C21_Witness ==
    /\ silverDone /\ silverSource = "capacity"
    /\ bronzeInput = << CapacityRecord(Some("11"), Some("eolien"), Null),
                        CapacityRecord(Some("11"), Some("eolien"), Some(3)) >>
    /\ Len(silverRows) = 1
    /\ silverSummary.quality[1].values_filled = 1

\* the timestamp column and the calendar components each dataset is
\* partitioned by
PartitionColumn(source) ==
    CASE source = "telemetry" -> "date_heure"
      [] source = "maintenance" -> "start_date"
      [] source = "climate" -> "valid_time"
      [] OTHER -> ""

PartitionParts(source) ==
    CASE source = "telemetry" -> {"year", "month", "day"}
      [] source = "maintenance" -> {"year", "month"}
      [] source = "climate" -> {"year", "month"}
      [] OTHER -> {}

Dated(source, row) ==
    source = "capacity" \/ row[PartitionColumn(source)] # Null

\* the partition key of a row that has its timestamp
CalendarOf(source, row) ==
    IF source = "capacity" THEN <<>>
    ELSE [c \in PartitionParts(source) |-> Some(row[PartitionColumn(source)][1][c])]

\* the places, file and position, of the rows persisted
Persisted(files) == UNION {{<<f, k>> : k \in DOMAIN f.rows} : f \in files}

RECURSIVE RowsIn(_)
RowsIn(files) ==
    IF files = {} THEN 0
    ELSE LET f == CHOOSE g \in files : TRUE
         IN  Len(f.rows) + RowsIn(files \ {f})

\* C22: in one transform call every row of the cleaned batch is written to
\* exactly one partition file, the file of the row's calendar components
\* (the single file for capacity); no file holds a year, month or day
\* column; the files' row counts sum to output_rows and files_written is
\* the number of distinct partition keys.
C22_EveryRowInOnePartition ==
    (silverDone /\ silverSummary.status # "empty") =>
        /\ \A i \in DOMAIN silverRows :
              /\ Dated(silverSource, silverRows[i])
              /\ Cardinality({p \in Persisted(silverFiles) :
                                p[1].rows[p[2]] = silverRows[i]}) = 1
        /\ \A p \in Persisted(silverFiles) :
              /\ Dated(silverSource, p[1].rows[p[2]])
              /\ p[1].partition = CalendarOf(silverSource, p[1].rows[p[2]])
              /\ DOMAIN p[1].rows[p[2]] \cap {"year", "month", "day"} = {}
        /\ \A f, g \in silverFiles : f.partition = g.partition => f = g
        /\ silverSummary.status = "success"
        /\ RowsIn(silverFiles) = silverSummary.output_rows
        /\ silverSummary.output_rows = Len(silverRows)
        /\ silverSummary.files_written =
              Cardinality({CalendarOf(silverSource, silverRows[i]) : i \in DOMAIN silverRows})

\* the same, of the calls whose cleaned batch has a timestamp in every row;
\* the capacity transformer writes its one file for a batch without rows too
C22_WhenEveryRowDated ==
    (\A i \in DOMAIN silverRows : Dated(silverSource, silverRows[i])) =>
        \/ silverSource = "capacity" /\ silverRows = <<>>
        \/ C22_EveryRowInOnePartition

\* a maintenance call on two events in different months and a third without
\* a start date has raised after writing one of the two partitions
C22_Witness ==
    /\ silverDone /\ silverSource = "maintenance"
    /\ silverSummary.status = "raised"
    /\ Len(silverRows) = 3 /\ Cardinality(silverFiles) = 1
    /\ \E i \in DOMAIN silverRows : silverRows[i].start_date = Null

(***************************************************************************)
(* Properties of the commits of load_from_silver (SpecCommit).             *)
(***************************************************************************)
Dimensions(db) == <<db.region, db.time, db.source>>

\* the database once the three dimension upserts of the call are through
DimensionsLoaded ==
    upsert_time(IF loadBatch.hasLabel
                THEN upsert_regions(upsert_sources(loadStart, Null), loadRegions)
                ELSE upsert_sources(loadStart, Null),
                loadTimestamps)

\* C23: within one load_from_silver call the Source, Region and Time
\* upserts are committed before the first fact row is resolved and the
\* lookups of the fact loop read that committed state; the fact upserts are
\* committed in one commit after the last row, so a failure during fact
\* resolution leaves the dimension rows committed and none of the call's
\* fact rows.
C23_DimensionsCommittedFirst ==
    /\ [](loadPc = "facts" \/ (loadPc = "failed" /\ loadFailedAt = "facts") =>
            /\ Dimensions(GoldDb) = Dimensions(DimensionsLoaded)
            /\ Dimensions(conn) = Dimensions(GoldDb)
            /\ FACT_ENERGY_FLOW = loadStart.fact)
    /\ [](loadPc = "failed" => conn = GoldDb)
    /\ [](loadPc = "done" =>
            GoldDb = load_from_silver(loadStart, loadBatch, capacity_data,
                                      loadRegions, loadTimestamps).db)
    /\ [][FACT_ENERGY_FLOW' # FACT_ENERGY_FLOW =>
            /\ loadPc = "facts" /\ loadRow > Len(loadBatch.rows)
            /\ loadPc' = "done"
            /\ FACT_ENERGY_FLOW' = conn.fact]_vars

\* a call has failed after resolving a row into fact rows: the dimension
\* rows are committed, the fact rows are not
C23_Witness ==
    /\ loadPc = "failed" /\ loadFailedAt = "facts"
    /\ loadRow = 2 /\ rows_loaded = 2
    /\ DIM_REGION # {} /\ DIM_TIME # {} /\ DIM_SOURCE # {}
    /\ FACT_ENERGY_FLOW = {}

(***************************************************************************)
(* Properties of the load factor (SpecFactor).                             *)
(***************************************************************************)
SourceNameOf(f) == (CHOOSE s \in DIM_SOURCE : s.id_source = f.id_source).source_name

\* v is value / installed rounded to 4 decimal places, in units of 0.0001:
\* no other multiple of 0.0001 is nearer to the quotient
RoundedTo4(v, value, installed) ==
    /\ 2 * (10000 * value - v * installed) <= installed
    /\ 2 * (v * installed - 10000 * value) <= installed

\* C24: a fact row has a load factor exactly when the capacity data of the
\* load knows the row's source with an installed capacity greater than
\* zero; the load factor is then the measured value divided by that
\* capacity, rounded to 4 decimal places; in every other case it is null.
C24_LoadFactor ==
    \A f \in FACT_ENERGY_FLOW :
        LET known == /\ SourceNameOf(f) \in DOMAIN capacity_data
                     /\ capacity_data[SourceNameOf(f)] > 0
        IN  /\ f.facteur_charge # Null <=> known
            /\ known => RoundedTo4(f.facteur_charge[1], f.valeur_mw,
                                   capacity_data[SourceNameOf(f)])

\* a load with eolien capacity 3: 2 MW of eolien stored with the load factor
\* 0.6667, the nucleaire value of the same row without one
C24_Witness ==
    /\ capacity_data = [s \in {"eolien"} |-> 3]
    /\ \E f, g \in FACT_ENERGY_FLOW :
         /\ SourceNameOf(f) = "eolien" /\ f.valeur_mw = 2
         /\ f.facteur_charge = Some(6667)
         /\ SourceNameOf(g) = "nucleaire" /\ g.facteur_charge = Null

(***************************************************************************)
(* Properties of the region mapping (SpecMap).                             *)
(***************************************************************************)
CentroidsOf(code) == {i \in DOMAIN REGION_CENTROIDS : REGION_CENTROIDS[i].code = code}

\* C25: a grid point gets the region code whose centroid is nearest to it
\* in (latitude, longitude) degree space; of several centroids at the same
\* least distance the first in REGION_CENTROIDS order is taken; the point
\* gets exactly one of the 12 codes.
C25_NearestCentroidFirstOnTie ==
    pointRegion # Null =>
        /\ Len(REGION_CENTROIDS) = 12
        /\ Cardinality(CentroidsOf(pointRegion[1])) = 1
        /\ \A i \in CentroidsOf(pointRegion[1]) : \A j \in DOMAIN REGION_CENTROIDS :
              /\ dist(gridPoint, i) <= dist(gridPoint, j)
              /\ j < i => dist(gridPoint, i) < dist(gridPoint, j)

\* a point as far from the centroid of 24 as from that of 75, and farther
\* from every other, has gone to 24
C25_Witness ==
    /\ gridPoint = [latitude |-> 4576, longitude |-> 175]
    /\ dist(gridPoint, 2) = dist(gridPoint, 9)
    /\ \A j \in DOMAIN REGION_CENTROIDS : dist(gridPoint, 2) <= dist(gridPoint, j)
    /\ pointRegion = Some("24")

(***************************************************************************)
(* Properties of ingest_chunked (SpecChunkedFair).                         *)
(***************************************************************************)
FirstOfMonth(t) == t.day = 1

\* the windows gone through so far are consecutive calendar months from
\* the month of the least valid_time on, no row is in two of them, and
\* once the call has returned every row is in one and the result is that
\* of ingest_parquet
ChunksCoverInput ==
    /\ \A k \in DOMAIN chunks :
          /\ FirstOfMonth(chunks[k].from) /\ FirstOfMonth(chunks[k].to)
          /\ chunks[k].to = NextMonth(chunks[k].from)
          /\ Earlier(chunks[k].from, chunks[k].to)
          /\ k > 1 => chunks[k].from = chunks[k - 1].to
          /\ k = 1 => /\ ~Earlier(MinTime(era5Input), chunks[k].from)
                      /\ Earlier(MinTime(era5Input), chunks[k].to)
    /\ \A k, l \in DOMAIN chunks : k # l => chunks[k].rows \cap chunks[l].rows = {}
    /\ chunkPc = "done" =>
          /\ \A i \in DOMAIN era5Input :
                Cardinality({k \in DOMAIN chunks : i \in chunks[k].rows}) = 1
          /\ \A i, j \in DOMAIN era5Input :
                era5Input[i].valid_time = era5Input[j].valid_time =>
                    \A k \in DOMAIN chunks :
                        i \in chunks[k].rows <=> j \in chunks[k].rows
          /\ Earlier(MaxTime(era5Input), chunks[Len(chunks)].to)
          /\ chunkedResult # Null
          /\ wholeResult # Null => chunkedResult = wholeResult

CloudRunWithBronzeFile ==
    /\ pipePc = "returned" /\ ~local_mode /\ pipeRuns = 1
    /\ results.stages.bronze = Some("success") /\ bronzeStore = 1

\* C27: a run outside local mode whose Bronze ingestion succeeded and wrote
\* a Bronze file goes through Silver and then Gold and returns
\* status = success with the three stage results recorded.
C27_CloudRunSucceeds ==
    CloudRunWithBronzeFile =>
        /\ stagesRun = <<"bronze", "silver", "gold">>
        /\ results.status = Some("success")
        /\ results.stages.silver # Null /\ results.stages.gold # Null

\* what the code does in that case: the Silver stage raises, the run
\* returns partial with failed_stage = silver, Gold is not entered and
\* nothing is written to Silver or Gold
C27_CloudRunStopsInSilver ==
    CloudRunWithBronzeFile =>
        /\ stagesRun = <<"bronze", "silver">>
        /\ results.status = Some("partial")
        /\ results.failed_stage = Some("silver")
        /\ results.stages.silver = Some("failure") /\ results.stages.gold = Null
        /\ silverStore = 0 /\ goldStore = 0

C27_Witness ==
    /\ CloudRunWithBronzeFile
    /\ results.status = Some("partial") /\ results.failed_stage = Some("silver")

(***************************************************************************)
(* Surrogate ids across upserts and reloads (SpecGold).                    *)
(***************************************************************************)
\* the natural keys a fact row refers to in the tables of db
RefersTo(db, f) ==
    [code_insee |-> {r.code_insee : r \in {x \in db.region : x.id_region = f.id_region}},
     horodatage |-> {t.horodatage : t \in {x \in db.time : x.id_date = f.id_date}},
     source_name |-> {s.source_name : s \in {x \in db.source : x.id_source = f.id_source}}]

NextDb ==
    [region |-> DIM_REGION', time |-> DIM_TIME', source |-> DIM_SOURCE',
     fact |-> FACT_ENERGY_FLOW']

LoadsBatch == lastCall'.op = "load_from_silver" /\ lastCall'.arg.rows # <<>>

\* C29: a load_from_silver call on a batch with a libelle_region column
\* leaves every region of the batch, new or already there, with the batch's
\* label as its name and with null population and area, whatever was stored
\* before; the other regions keep their attributes, and a batch without the
\* column changes no region.
C29_AutoRegistrationNameOnly ==
    [][ LoadsBatch =>
          IF lastCall'.arg.hasLabel
          THEN /\ \A row \in Range(lastCall'.arg.rows) :
                     \E r \in DIM_REGION' :
                        /\ r.code_insee = row.code_insee_region
                        /\ r.nom_region = row.libelle_region
                        /\ r.population = Null /\ r.superficie_km2 = Null
               /\ \A r \in DIM_REGION :
                     r.code_insee \notin {row.code_insee_region :
                                             row \in Range(lastCall'.arg.rows)}
                        => r \in DIM_REGION'
          ELSE DIM_REGION' = DIM_REGION ]_vars

\* one region upsert and then one load on a batch with labels have run, and
\* the load met the region the upsert had stored
C29_Witness ==
    /\ lastCall.op = "load_from_silver" /\ lastCall.arg.hasLabel
    /\ lastCall.arg.rows # <<>> /\ ~replayed
    /\ seqSource = Len(DefaultSources)
    /\ seqRegion = 2 /\ Cardinality(DIM_REGION) = 1
    /\ \A r \in DIM_REGION :
          /\ r.nom_region = LabelOf(r.code_insee)
          /\ r.population = Null /\ r.superficie_km2 = Null

(***************************************************************************)
(* Partition files across two transform calls (SpecDir).                   *)
(***************************************************************************)
Day(t) == [c \in {"year", "month", "day"} |-> Some(t[c])]

\* the (year, month, day) partitions the Bronze records of a call are dated
RecordDays(records) ==
    {Day(to_datetime(rec.date_heure)[1]) :
        rec \in {x \in Range(records) : to_datetime(x.date_heure) # Null}}

\* the rows of the cleaned batch of a call dated in one partition
RowsOfDay(rows, partition) ==
    {row \in Range(rows) : Day(row.date_heure[1]) = partition}

FileAt(dir, partition) == {f \in dir : f.partition = partition}

SecondCall == dirPc = "second" /\ dirPc' = "done"

\* the first input's rows for a day are rows the second call did not write
\* too
NoRowOfFirstCallLeft(before, after, rows) ==
    \A f \in before, g \in after :
        g.partition = f.partition => Range(g.rows) \subseteq Range(rows)

\* C30: for two successive calls into one output directory, a partition
\* file of the first call is replaced by the second call's rows when the
\* second input has records for that day, and a partition for which the
\* second input has no records is left untouched.
C30_ReplacedWhenInputHasDay ==
    [][ SecondCall =>
          \A f \in silverDir :
             IF f.partition \in RecordDays(dirInput')
             THEN /\ FileAt(silverDir', f.partition) # {}
                  /\ \A g \in FileAt(silverDir', f.partition) :
                        Range(g.rows) = RowsOfDay(dirRows', f.partition)
             ELSE f \in silverDir' ]_vars

\* C30 as the code has it: the partition file is replaced by the second
\* call's rows for that day when the second call has rows for it after its
\* dedup and quality rules, no row of it then being from the first call
\* alone; a partition the second call has no such rows for is left
\* untouched, and each partition has one file.
C30_ReplacedWhenCallWritesDay ==
    [][ SecondCall =>
          /\ \A f \in silverDir :
                IF RowsOfDay(dirRows', f.partition) # {}
                THEN /\ FileAt(silverDir', f.partition) # {}
                     /\ \A g \in FileAt(silverDir', f.partition) :
                           /\ Range(g.rows) = RowsOfDay(dirRows', f.partition)
                           /\ Len(g.rows) = Cardinality(RowsOfDay(dirRows', f.partition))
                ELSE f \in silverDir'
          /\ \A f, g \in silverDir' : f.partition = g.partition => f = g ]_vars

\* the first call wrote a file for 15 June (nucleaire_mw 4) and one for
\* 1 July; after the second call the file of 15 June holds one row, that
\* of the second call (nucleaire_mw 7), and the file of 1 July, a day the
\* second input has no record for, is still there
C30_Witness ==
    /\ dirPc = "done"
    /\ Len(dirInput) = 1 /\ dirInput[1].nucleaire = Some(" 7 ")
    /\ \E f \in dirBefore :
          /\ f.partition = Day([year |-> 2025, month |-> 6, day |-> 15])
          /\ Len(f.rows) = 1 /\ f.rows[1].nucleaire_mw = Some(4)
    /\ \E f \in silverDir :
          /\ f.partition = Day([year |-> 2025, month |-> 6, day |-> 15])
          /\ Len(f.rows) = 1 /\ f.rows[1].nucleaire_mw = Some(7)
    /\ \E f \in silverDir :
          f.partition = Day([year |-> 2025, month |-> 7, day |-> 1])

====
